---- MODULE Spec2Model ----
(***************************************************************************)
(* A model of the chat-completion handlers of llm-api-server: the DeepSeek *)
(* handlers (api-server.js and models/deepseek-model), the hybrid          *)
(* DeepClaude handlers (api-server.js and models/deepclaude-model), the    *)
(* fallback handleDirectClaudeRequest and the Claude handlers.             *)
(*                                                                         *)
(* One session is one record, sess.  Every action is one resumption of the *)
(* handler's code: from an await (or a stream callback) to the next await. *)
(* Upstream results (a status, a chunk of lines, an end, an error) are the *)
(* inputs, drawn from small sets.                                          *)
(***************************************************************************)
EXTENDS Integers, Sequences, FiniteSets, TLC

VARIABLES sess

vars == <<sess>>

\* Lines the reasoning upstream delivers to one session at most, and lines the
\* answer upstream delivers at most, over all chunks.
MaxEvents == 3

(***************************************************************************)
(* Text: a sequence of characters.  SP is a whitespace character, "t" a    *)
(* visible one; OPEN and CLOSE stand for the two marker strings.           *)
(***************************************************************************)
SP == " "

RECURSIVE TrimLeft(_)
TrimLeft(t) == IF t # <<>> /\ Head(t) = SP THEN TrimLeft(Tail(t)) ELSE t

RECURSIVE TrimRight(_)
TrimRight(t) ==
  IF t # <<>> /\ t[Len(t)] = SP THEN TrimRight(SubSeq(t, 1, Len(t) - 1)) ELSE t

\* String.prototype.trim
Trim(t) == TrimRight(TrimLeft(t))

\* "<思考过程>\n"
OPEN == <<"<think>">>

\* "\n</思考过程>\n\n"
CLOSE == <<"</think>">>

\* prefixMessage of handleDirectClaudeRequest
NOTICE == <<"[notice]">>

UserInputs == {<<"q">>, <<"q", "q">>}

(***************************************************************************)
(* The response object res: the frames written, whether the headers went   *)
(* out, whether it was ended, the status and the JSON body.                *)
(***************************************************************************)
Frame(k, t) == [k |-> k, t |-> t]

RoleFrame == Frame("role", <<>>)
OpenFrame == Frame("open", OPEN)
CloseFrame == Frame("close", CLOSE)
StopFrame == Frame("stop", <<>>)
DoneFrame == Frame("done", <<>>)
ErrorFrame == Frame("error", <<>>)
NoticeFrame == Frame("notice", NOTICE)

NoBody == [kind |-> "none", content |-> <<>>, usage |-> <<0, 0, 0>>]
ErrorBody == [kind |-> "error", content |-> <<>>, usage |-> <<0, 0, 0>>]

Completion(content, prompt, completion) ==
  [kind |-> "completion", content |-> content,
   usage |-> <<prompt, completion, prompt + completion>>]

\* res.write(frame): the first write sends the headers with status 200; a write
\* to an ended response is dropped (the stream reports write-after-end).
Write(s, f) ==
  IF s.ended THEN [s EXCEPT !.lateWrite = TRUE]
  ELSE [s EXCEPT !.out = Append(@, f), !.headersSent = TRUE,
                 !.status = IF s.headersSent THEN @ ELSE 200,
                 !.goneWrite = @ \/ s.clientGone]

\* res.end()
End(s) ==
  [s EXCEPT !.ended = TRUE, !.headersSent = TRUE, !.ends = @ + 1,
            !.status = IF s.headersSent THEN @ ELSE 200]

\* res.status(code).json(body): throws ERR_HTTP_HEADERS_SENT once the headers went out.
Json(s, code, body) ==
  IF s.headersSent THEN [s EXCEPT !.threw = TRUE]
  ELSE [s EXCEPT !.status = code, !.body = body, !.headersSent = TRUE, !.ended = TRUE,
                 !.ends = @ + 1]

\* The handler returns (or its last callback ran): nothing of it is pending.
Finish(s) == [s EXCEPT !.pc = "done"]

(***************************************************************************)
(* Lines of the reasoning provider's body.  A line is the JSON envelope's  *)
(* three fields, or malformed (JSON.parse throws, or the line is filtered).*)
(***************************************************************************)
Line(type, ctype, content) == [type |-> type, content_type |-> ctype, content |-> content]

Malformed == Line("malformed", "", <<>>)

Events ==
  { Line("answer", "thinking", <<"t">>),
    Line("answer", "thinking", <<SP>>),
    Line("answer", "thinking", <<>>),
    Line("answer", "text", <<"t">>),
    Line("answer", "text", <<>>),
    Line("other", "text", <<"t">>),
    Malformed }

RECURSIVE SeqsUpTo(_, _)
SeqsUpTo(S, n) ==
  IF n = 0 THEN {<<>>}
  ELSE LET shorter == SeqsUpTo(S, n - 1)
       IN shorter \cup {Append(q, x) : q \in {r \in shorter : Len(r) = n - 1}, x \in S}

\* The chunks an upstream body may still deliver: any lines, MaxEvents in all.
Chunks(s) == SeqsUpTo(Events, MaxEvents - s.nlines)

\* data.content_type === "thinking" && data.content
IsThinking(e) == e.type # "malformed" /\ e.content_type = "thinking" /\ e.content # <<>>

\* data.type === "answer" && data.content && data.content_type !== "thinking"
IsAnswer(e) == e.type = "answer" /\ e.content # <<>> /\ e.content_type # "thinking"

\* data.type === "answer" && data.content_type !== "thinking"
IsAnswerMark(e) == e.type = "answer" /\ e.content_type # "thinking"

\* The Thinking and Answer events of a chunk, in order (the classifier of the spec).
RECURSIVE Classified(_)
Classified(ch) ==
  IF ch = <<>> THEN <<>>
  ELSE LET e == Head(ch)
       IN (IF IsThinking(e) THEN <<Frame("think", e.content)>>
           ELSE IF IsAnswer(e) THEN <<Frame("answer", e.content)>>
           ELSE <<>>) \o Classified(Tail(ch))

\* Bookkeeping of a delivered chunk: the lines read and the events decoded.
Delivered(s, ch) ==
  [s EXCEPT !.nlines = @ + Len(ch), !.evlog = @ \o Classified(ch)]

\* How a request to an upstream settles: a 2xx response, a non-2xx response, or
\* a rejection (connect error, abort).
FetchResult(kind, status) == [kind |-> kind, status |-> status]

FetchResults ==
  {FetchResult("ok", 200), FetchResult("throw", 0),
   FetchResult("http", 403), FetchResult("http", 503)}

(***************************************************************************)
(* models/deepseek-model: handleDeepSeekRequest                            *)
(***************************************************************************)
\* createConversation is awaited
DsmStart(s) == [s EXCEPT !.pc = "conv", !.convCalls = @ + 1]

\* createConversation returned; on success the chat request is issued
DsmConv(s, ok) ==
  IF ~ok
  THEN Finish(IF s.stream THEN End(Write(s, ErrorFrame)) ELSE Json(s, 500, ErrorBody))
  ELSE [s EXCEPT !.pc = "fetch", !.dsCalls = @ + 1]

\* the outer catch of handleDeepSeekRequest
DsmOuterCatch(s) ==
  Finish(IF ~s.headersSent
         THEN IF s.stream THEN End(Write(s, ErrorFrame)) ELSE Json(s, 500, ErrorBody)
         ELSE s)

\* fetch of the chat request settled
DsmFetch(s, r) ==
  IF r.kind = "throw" THEN DsmOuterCatch(s)
  ELSE IF r.kind # "ok"
  THEN LET u == [s EXCEPT !.upStatus = r.status]
       IN Finish(IF s.stream THEN End(Write(u, ErrorFrame)) ELSE Json(u, r.status, ErrorBody))
  ELSE LET o == [s EXCEPT !.pc = "reading", !.dsConn = "open", !.dsOpened = @ + 1]
       IN IF s.stream THEN Write(o, RoleFrame) ELSE o

\* one line of a chunk, streaming
\* DsmLine without lines 486-502: the switch to the answer phase writes no
\* close marker
DsmLineNoClose(s, e) ==
  IF IsThinking(e)
  THEN LET s1 == IF s.isFirstThinking
                 THEN Write([s EXCEPT !.isFirstThinking = FALSE, !.isInThinking = TRUE], OpenFrame)
                 ELSE s
       IN Write(s1, Frame("think", e.content))
  ELSE IF IsAnswer(e)
  THEN Write([s EXCEPT !.isInThinking = FALSE, !.answer = @ \o e.content],
             Frame("answer", e.content))
  ELSE s

\* DsmLine without line 444: isFirstThinking stays true and every thinking
\* event gets an open marker
DsmLineOpenEach(s, e) ==
  IF IsThinking(e)
  THEN Write(Write([s EXCEPT !.isInThinking = TRUE], OpenFrame), Frame("think", e.content))
  ELSE IF IsAnswer(e)
  THEN LET s1 == IF s.isInThinking
                 THEN Write([s EXCEPT !.isInThinking = FALSE], CloseFrame)
                 ELSE s
       IN Write([s1 EXCEPT !.answer = @ \o e.content], Frame("answer", e.content))
  ELSE s

DsmLine(s, e) ==
  IF IsThinking(e)
  THEN LET s1 == IF s.isFirstThinking
                 THEN Write([s EXCEPT !.isFirstThinking = FALSE, !.isInThinking = TRUE],
                            OpenFrame)
                 ELSE s
       IN Write(s1, Frame("think", e.content))
  ELSE IF IsAnswer(e)
  THEN LET s1 == IF s.isInThinking
                 THEN Write([s EXCEPT !.isInThinking = FALSE], CloseFrame)
                 ELSE s
       IN Write([s1 EXCEPT !.answer = @ \o e.content], Frame("answer", e.content))
  ELSE s

RECURSIVE DsmLines(_, _)
DsmLines(s, ch) == IF ch = <<>> THEN s ELSE DsmLines(DsmLine(s, Head(ch)), Tail(ch))

\* one line of a chunk, aggregate (handleDeepSeekNonStreamResponseWithThinking)
\* DsAggLine whose first test also reads responseText: thinking content that
\* arrives after answer text is taken for answer text
DsAggLineByPhase(s, e) ==
  IF IsThinking(e) /\ s.answer = <<>> THEN [s EXCEPT !.thinking = @ \o e.content]
  ELSE IF IsAnswer(e) \/ IsThinking(e) THEN [s EXCEPT !.answer = @ \o e.content]
  ELSE s

DsAggLine(s, e) ==
  IF IsThinking(e) THEN [s EXCEPT !.thinking = @ \o e.content]
  ELSE IF IsAnswer(e) THEN [s EXCEPT !.answer = @ \o e.content]
  ELSE s

RECURSIVE DsAggLines(_, _)
DsAggLines(s, ch) == IF ch = <<>> THEN s ELSE DsAggLines(DsAggLine(s, Head(ch)), Tail(ch))

\* a chunk of the body arrived
DsmChunk(s, ch) ==
  IF s.stream THEN DsmLines(Delivered(s, ch), ch) ELSE DsAggLines(Delivered(s, ch), ch)

\* const fullContent = thinkingText ? block + responseText : responseText
DsmFullContent(thinkingText, responseText) ==
  IF thinkingText # <<>> THEN OPEN \o Trim(thinkingText) \o CLOSE \o responseText
  ELSE responseText

\* the body ended
\* DsmEnd without the test of line 537: the close marker is written at the end
\* of every stream
DsmEndCloseAlways(s) ==
  LET c == [s EXCEPT !.dsConn = "closed"]
  IN IF s.stream
     THEN Finish(End(Write(Write(Write(c, CloseFrame), StopFrame), DoneFrame)))
     ELSE LET full == DsmFullContent(c.thinking, c.answer)
          IN Finish(Json(c, 200, Completion(full, Len(c.userInput), Len(full))))

DsmEnd(s) ==
  LET c == [s EXCEPT !.dsConn = "closed"]
  IN IF s.stream
     THEN LET s1 == IF c.isInThinking THEN Write(c, CloseFrame) ELSE c
          IN Finish(End(Write(Write(s1, StopFrame), DoneFrame)))
     ELSE LET full == DsmFullContent(c.thinking, c.answer)
          IN Finish(Json(c, 200, Completion(full, Len(c.userInput), Len(full))))

\* reading the body failed
DsmReadError(s) ==
  LET c == [s EXCEPT !.dsConn = "closed", !.readFailed = TRUE]
  IN IF s.stream
     THEN Finish(IF ~c.headersSent THEN Json(c, 500, ErrorBody) ELSE End(c))
     ELSE DsmOuterCatch(c)

(***************************************************************************)
(* api-server.js: handleDeepSeekRequest                                    *)
(***************************************************************************)
DsaStart(s) == [s EXCEPT !.pc = "conv", !.convCalls = @ + 1]

DsaConv(s, ok) ==
  IF ~ok THEN Finish(Json(s, 500, ErrorBody))
  ELSE [s EXCEPT !.pc = "fetch", !.dsCalls = @ + 1]

\* the outer catch of handleDeepSeekRequest
DsaOuterCatch(s) == Finish(IF ~s.headersSent THEN Json(s, 500, ErrorBody) ELSE End(s))

DsaFetch(s, r) ==
  IF r.kind = "throw" THEN DsaOuterCatch(s)
  ELSE IF r.kind # "ok"
  THEN Finish(Json([s EXCEPT !.upStatus = r.status], r.status, ErrorBody))
  ELSE LET o == [s EXCEPT !.pc = "reading", !.dsConn = "open", !.dsOpened = @ + 1]
       IN IF s.stream THEN Write(o, RoleFrame) ELSE o

\* the whole thinking text as one frame
BlockFrame(thinkingContent) == Frame("block", OPEN \o Trim(thinkingContent) \o CLOSE)

DsaLine(s, e) ==
  IF IsThinking(e) THEN [s EXCEPT !.thinking = @ \o e.content]
  ELSE IF IsAnswer(e)
  THEN LET s1 == IF ~s.hasOutputThinking /\ Trim(s.thinking) # <<>>
                 THEN Write([s EXCEPT !.hasOutputThinking = TRUE], BlockFrame(s.thinking))
                 ELSE s
       IN Write([s1 EXCEPT !.answer = @ \o e.content], Frame("answer", e.content))
  ELSE s

RECURSIVE DsaLines(_, _)
DsaLines(s, ch) == IF ch = <<>> THEN s ELSE DsaLines(DsaLine(s, Head(ch)), Tail(ch))

DsaChunk(s, ch) ==
  IF s.stream THEN DsaLines(Delivered(s, ch), ch) ELSE DsAggLines(Delivered(s, ch), ch)

\* handleDeepSeekNonStreamResponseWithThinking returns thinkingText.trim()
DsaFullContent(thinkingText, responseText) ==
  IF Trim(thinkingText) # <<>>
  THEN OPEN \o Trim(Trim(thinkingText)) \o CLOSE \o responseText
  ELSE responseText

DsaEnd(s) ==
  LET c == [s EXCEPT !.dsConn = "closed"]
  IN IF s.stream
     THEN LET s1 == IF ~c.hasOutputThinking /\ Trim(c.thinking) # <<>>
                    THEN Write(c, BlockFrame(c.thinking))
                    ELSE c
          IN Finish(End(Write(Write(s1, StopFrame), DoneFrame)))
     ELSE LET full == DsaFullContent(c.thinking, c.answer)
          IN Finish(Json(c, 200, Completion(full, Len(c.userInput), Len(full))))

\* reading the body failed: the aggregate reader swallows the error and returns
\* what it has
DsaReadError(s) ==
  LET c == [s EXCEPT !.dsConn = "closed", !.readFailed = TRUE]
  IN IF s.stream
     THEN Finish(IF ~c.headersSent THEN Json(c, 500, ErrorBody) ELSE End(c))
     ELSE LET full == DsaFullContent(c.thinking, c.answer)
          IN Finish(Json(c, 200, Completion(full, Len(c.userInput), Len(full))))

(***************************************************************************)
(* Lines of the answer provider's body, and the request sent to it.        *)
(***************************************************************************)
CLine(kind, text) == [kind |-> kind, text |-> text]

\* a text delta, another event type, or a line JSON.parse rejects
ClaudeEvents == {CLine("delta", <<"t">>), CLine("delta", <<>>), CLine("other", <<>>)}

ClaudeChunks(s) == SeqsUpTo(ClaudeEvents, MaxEvents - s.clines)

\* How the axios request settles: the response (for an aggregate request, with
\* its whole body) or a rejection (connect error, non-2xx status, timeout).
ClaudeResult(kind, body) == [kind |-> kind, body |-> body]

ClaudeResults(s) ==
  {ClaudeResult("throw", <<>>)}
    \cup (IF s.stream \/ s.handler = "cl_model"
          THEN {ClaudeResult("ok", <<>>)}
          ELSE {ClaudeResult("ok", b) : b \in SeqsUpTo(ClaudeEvents, MaxEvents)})

\* the text of the one user message of the request
DirectPrompt(userInput) == userInput

\* claudePrompt of api-server.js handleDeepClaudeRequest
ApiHybridPrompt(thinking) == <<"[reasoning:]">> \o thinking \o <<"[answer directly]">>

\* prompt of models/deepclaude-model handleDeepClaudeRequest
ModelHybridPrompt(message, thinking) ==
  <<"[input:]">> \o message \o <<"[reasoning:]">> \o Trim(thinking) \o <<"[respond]">>

\* axios(...) is called with this prompt
ClaudeRequest(s, prompt) ==
  [s EXCEPT !.pc = "claude_req", !.claudeReqs = Append(@, prompt)]

\* the 'data' callback, one line
ClaudeLine(s, l) ==
  IF l.kind = "delta"
  THEN Write([s EXCEPT !.answer = @ \o l.text], Frame("answer", l.text))
  ELSE s

RECURSIVE ClaudeLines(_, _)
ClaudeLines(s, ch) ==
  IF ch = <<>> THEN s ELSE ClaudeLines(ClaudeLine(s, Head(ch)), Tail(ch))

\* the 'data' callback
ClaudeData(s, ch) == ClaudeLines([s EXCEPT !.clines = @ + Len(ch)], ch)

\* the 'end' callback
\* ClaudeEnd with the sentinel written before the terminal frame
ClaudeEndSwapped(s) == Finish(End(Write(Write(s, DoneFrame), StopFrame)))

ClaudeEnd(s) == Finish(End(Write(Write(s, StopFrame), DoneFrame)))

\* the 'error' callback: the model modules write an error frame, api-server.js
\* only ends the response
ClaudeError(s) ==
  IF s.handler \in {"dc_model", "cl_model"}
  THEN Finish(End(Write(s, ErrorFrame)))
  ELSE Finish(End(s))

\* the text deltas of an aggregate body, concatenated
RECURSIVE AggContent(_)
AggContent(b) ==
  IF b = <<>> THEN <<>>
  ELSE (IF Head(b).kind = "delta" THEN Head(b).text ELSE <<>>) \o AggContent(Tail(b))

(***************************************************************************)
(* api-server.js: handleDirectClaudeRequest, the fallback                  *)
(***************************************************************************)
\* up to the axios call
FbStart(s, keyOk) ==
  LET f == [s EXCEPT !.fellBack = TRUE]
  IN IF ~keyOk THEN Finish(Json(f, 500, ErrorBody))
     ELSE ClaudeRequest(f, DirectPrompt(f.userInput))

\* the axios call settled
\* FbResp without line 1309: no notice frame, no notice prefix
FbRespNoNotice(s, r) ==
  IF r.kind = "throw" THEN Finish(IF ~s.headersSent THEN Json(s, 500, ErrorBody) ELSE s)
  ELSE IF s.stream THEN Write([s EXCEPT !.pc = "claude_stream"], RoleFrame)
  ELSE LET fullContent == AggContent(r.body)
       IN IF fullContent = <<>> THEN Finish(Json(s, 500, ErrorBody))
          ELSE Finish(Json(s, 200,
                 Completion(fullContent, Len(s.userInput), Len(fullContent))))

FbResp(s, r) ==
  IF r.kind = "throw" THEN Finish(IF ~s.headersSent THEN Json(s, 500, ErrorBody) ELSE s)
  ELSE IF s.stream
  THEN Write(Write([s EXCEPT !.pc = "claude_stream"], RoleFrame), NoticeFrame)
  ELSE LET fullContent == AggContent(r.body)
       IN IF fullContent = <<>> THEN Finish(Json(s, 500, ErrorBody))
          ELSE LET c == NOTICE \o fullContent
               IN Finish(Json(s, 200, Completion(c, Len(s.userInput), Len(c))))

(***************************************************************************)
(* api-server.js: handleDeepClaudeRequest and getDeepSeekThinking          *)
(***************************************************************************)
\* maxRetries
MaxRetries == 2

DcaStart(s) == [s EXCEPT !.pc = "conv", !.convCalls = @ + 1]

\* getDeepSeekThinking up to its fetch
GdtCall(s) ==
  [s EXCEPT !.pc = "gdt_fetch", !.dsCalls = @ + 1,
            !.reissued = @ \/ s.dsOpened > 0]

\* createConversation returned
\* DcaConv with the bootstrap call inside a retry loop
DcaConvRetry(s, ok, keyOk) ==
  IF ok THEN GdtCall(s)
  ELSE IF s.convCalls <= MaxRetries THEN [s EXCEPT !.convCalls = @ + 1]
  ELSE FbStart([s EXCEPT !.convFailed = TRUE], keyOk)

DcaConv(s, ok, keyOk) ==
  IF ~ok THEN FbStart([s EXCEPT !.convFailed = TRUE], keyOk) ELSE GdtCall(s)

\* getDeepSeekThinking returned thinking (<<>> stands for "" and for null): the
\* rest of the retry loop and what follows it, up to the next await
\* DcaThinking without the retry loop: the first empty result falls back
DcaThinkingNoRetry(s, thinking, keyOk) ==
  LET n == [s EXCEPT !.retryCount = @ + 1, !.thinking = thinking]
  IN IF thinking = <<>> THEN FbStart(n, keyOk)
     ELSE IF ~keyOk THEN Finish(Json(n, 500, ErrorBody))
     ELSE ClaudeRequest(n, ApiHybridPrompt(thinking))

\* DcaThinking with the loop running one attempt longer
DcaThinkingExtraRetry(s, thinking, keyOk) ==
  LET n == [s EXCEPT !.retryCount = @ + 1, !.thinking = thinking]
  IN IF thinking = <<>>
     THEN IF n.retryCount <= MaxRetries + 1 THEN GdtCall(n) ELSE FbStart(n, keyOk)
     ELSE IF ~keyOk THEN Finish(Json(n, 500, ErrorBody))
     ELSE ClaudeRequest(n, ApiHybridPrompt(thinking))

DcaThinking(s, thinking, keyOk) ==
  LET n == [s EXCEPT !.retryCount = @ + 1, !.thinking = thinking]
  IN IF thinking = <<>>
     THEN IF n.retryCount <= MaxRetries THEN GdtCall(n) ELSE FbStart(n, keyOk)
     ELSE IF ~keyOk THEN Finish(Json(n, 500, ErrorBody))
     ELSE ClaudeRequest(n, ApiHybridPrompt(thinking))

\* the fetch of getDeepSeekThinking settled
GdtFetch(s, r, keyOk) ==
  IF r.kind # "ok" THEN DcaThinking(s, <<>>, keyOk)
  ELSE [s EXCEPT !.pc = "gdt_reading", !.dsConn = "open", !.dsOpened = @ + 1,
                 !.thinkingResponse = <<>>, !.shouldExit = FALSE,
                 !.timerFired = FALSE]

\* the lines of one chunk; the break leaves the rest of the chunk unread
RECURSIVE GdtLines(_, _)
GdtLines(s, ch) ==
  IF ch = <<>> THEN s
  ELSE LET e == Head(ch)
       IN IF IsThinking(e)
          THEN GdtLines([s EXCEPT !.thinkingResponse = @ \o e.content], Tail(ch))
          ELSE IF IsAnswerMark(e) /\ s.thinkingResponse # <<>>
          THEN [s EXCEPT !.shouldExit = TRUE]
          ELSE GdtLines(s, Tail(ch))

\* a chunk arrived: with shouldExit set the loop breaks and the function returns
GdtChunk(s, ch, keyOk) ==
  IF s.shouldExit
  THEN DcaThinking([s EXCEPT !.dsConn = "closed", !.usedTimedOut = s.timerFired,
                             !.emptyEnd = @ \/ s.thinkingResponse = <<>>],
                   s.thinkingResponse, keyOk)
  ELSE GdtLines([s EXCEPT !.nlines = @ + Len(ch)], ch)

\* the body ended
GdtEnd(s, keyOk) ==
  DcaThinking([s EXCEPT !.dsConn = "closed", !.emptyEnd = @ \/ s.thinkingResponse = <<>>],
              s.thinkingResponse, keyOk)

\* reading the body failed: the error is caught and null returned
GdtReadError(s, keyOk) ==
  DcaThinking([s EXCEPT !.dsConn = "closed", !.readFailed = TRUE,
                        !.emptyEnd = @ \/ s.thinkingResponse = <<>>],
              <<>>, keyOk)

\* the 15 s timer of getDeepSeekThinking fires
GdtTimeout(s) == [s EXCEPT !.shouldExit = TRUE, !.timerFired = TRUE]

\* the axios call of the hybrid path settled
\* DcaResp whose catch (claudeError) goes to handleDirectClaudeRequest
DcaRespThenFallback(s, r) ==
  IF r.kind = "throw" THEN FbStart(s, TRUE)
  ELSE IF s.stream THEN Write([s EXCEPT !.pc = "claude_stream"], RoleFrame)
  ELSE LET fullContent == AggContent(r.body)
       IN IF fullContent = <<>> THEN Finish(Json(s, 500, ErrorBody))
          ELSE Finish(Json([s EXCEPT !.answer = fullContent], 200,
                           Completion(fullContent, Len(ApiHybridPrompt(s.thinking)),
                                      Len(fullContent))))

\* DcaResp whose catch (claudeError) sends nothing
DcaRespSilent(s, r) ==
  IF r.kind = "throw" THEN Finish(s)
  ELSE IF s.stream THEN Write([s EXCEPT !.pc = "claude_stream"], RoleFrame)
  ELSE LET fullContent == AggContent(r.body)
       IN IF fullContent = <<>> THEN Finish(Json(s, 500, ErrorBody))
          ELSE Finish(Json(s, 200, Completion(fullContent, Len(ApiHybridPrompt(s.thinking)),
                                              Len(fullContent))))

DcaResp(s, r) ==
  IF r.kind = "throw" THEN Finish(Json(s, 500, ErrorBody))
  ELSE IF s.stream THEN Write([s EXCEPT !.pc = "claude_stream"], RoleFrame)
  ELSE LET fullContent == AggContent(r.body)
       IN IF fullContent = <<>> THEN Finish(Json(s, 500, ErrorBody))
          ELSE Finish(Json([s EXCEPT !.answer = fullContent], 200,
                           Completion(fullContent, Len(ApiHybridPrompt(s.thinking)),
                                      Len(fullContent))))

(***************************************************************************)
(* models/deepclaude-model: handleDeepClaudeRequest                        *)
(***************************************************************************)
\* DcmStart with lines 211-213 replaced by the HTTP 500 of line 215
DcmStartJson(s, keyOk) ==
  IF ~keyOk THEN Finish(Json(s, 500, ErrorBody))
  ELSE [s EXCEPT !.pc = "conv", !.convCalls = @ + 1]

\* getClaudeApiKey returned; with a key createConversation is awaited
DcmStart(s, keyOk) ==
  IF ~keyOk
  THEN Finish(IF s.stream THEN End(Write(s, ErrorFrame)) ELSE Json(s, 500, ErrorBody))
  ELSE [s EXCEPT !.pc = "conv", !.convCalls = @ + 1]

\* DcmConv without lines 251-254: no role frame
DcmConvNoRole(s, ok) ==
  IF ~ok
  THEN Finish(IF s.stream THEN End(Write([s EXCEPT !.convFailed = TRUE], ErrorFrame))
              ELSE Json([s EXCEPT !.convFailed = TRUE], 500, ErrorBody))
  ELSE [s EXCEPT !.pc = "fetch", !.dsCalls = @ + 1, !.reissued = @ \/ s.dsOpened > 0]

\* createConversation returned; on success the role frame is written and the
\* reasoning request issued
DcmConv(s, ok) ==
  IF ~ok
  THEN Finish(IF s.stream THEN End(Write([s EXCEPT !.convFailed = TRUE], ErrorFrame))
              ELSE Json([s EXCEPT !.convFailed = TRUE], 500, ErrorBody))
  ELSE LET f == [s EXCEPT !.pc = "fetch", !.dsCalls = @ + 1,
                          !.reissued = @ \/ s.dsOpened > 0]
       IN IF s.stream THEN Write(f, RoleFrame) ELSE f

\* the catch blocks around the reasoning stage: an error frame and the end of
\* the response when streaming, HTTP 500 otherwise
DcmCatch(s) ==
  Finish(IF s.stream THEN End(Write(s, ErrorFrame)) ELSE Json(s, 500, ErrorBody))

\* the fetch of the reasoning request settled
DcmFetch(s, r) ==
  IF r.kind # "ok" THEN DcmCatch(s)
  ELSE [s EXCEPT !.pc = "reading", !.dsConn = "open", !.dsOpened = @ + 1]

\* the lines of one chunk; the break leaves the rest of the chunk unread
RECURSIVE DcmLines(_, _)
DcmLines(s, ch) ==
  IF ch = <<>> THEN s
  ELSE LET e == Head(ch)
       IN IF IsThinking(e)
          THEN LET a == [s EXCEPT !.thinking = @ \o e.content]
                   o == IF s.stream /\ ~a.isInThinking
                        THEN Write([a EXCEPT !.isInThinking = TRUE], OpenFrame)
                        ELSE a
                   w == IF s.stream THEN Write(o, Frame("think", e.content)) ELSE o
               IN DcmLines(w, Tail(ch))
          ELSE IF IsAnswerMark(e)
          THEN [s EXCEPT !.thinkingFinished = TRUE]
          ELSE DcmLines(s, Tail(ch))

\* after the read loop: the close marker and the 500 ms pause when streaming,
\* the answer request at once otherwise
DcmAfterLoop(s) ==
  LET c == [s EXCEPT !.dsConn = "closed", !.emptyEnd = @ \/ s.thinking = <<>>]
  IN IF s.stream
     THEN [(IF c.isInThinking THEN Write(c, CloseFrame) ELSE c) EXCEPT !.pc = "pause"]
     ELSE IF Len(c.thinking) > 0
     THEN ClaudeRequest(c, ModelHybridPrompt(c.userInput, c.thinking))
     ELSE Finish(Json(c, 500, ErrorBody))

DcmChunk(s, ch) ==
  LET r == DcmLines(Delivered(s, ch), ch)
  IN IF r.thinkingFinished THEN DcmAfterLoop(r) ELSE r

DcmEnd(s) == DcmAfterLoop(s)

\* reading the body failed
DcmReadError(s) == DcmCatch([s EXCEPT !.dsConn = "closed", !.readFailed = TRUE])

\* the pause is over
DcmPause(s) ==
  IF Len(s.thinking) > 0
  THEN ClaudeRequest(s, ModelHybridPrompt(s.userInput, s.thinking))
  ELSE Finish(End(Write(s, ErrorFrame)))

\* the axios call settled
DcmResp(s, r) ==
  IF r.kind = "throw" THEN DcmCatch(s)
  ELSE IF s.stream THEN [s EXCEPT !.pc = "claude_stream"]
  ELSE LET completeAnswer == AggContent(r.body)
       IN IF completeAnswer = <<>> THEN Finish(Json(s, 500, ErrorBody))
          ELSE Finish(Json([s EXCEPT !.answer = completeAnswer], 200,
                 Completion(OPEN \o Trim(s.thinking) \o CLOSE \o completeAnswer,
                            Len(s.userInput), Len(completeAnswer))))

(***************************************************************************)
(* api-server.js and models/claude-model: handleClaudeRequest              *)
(***************************************************************************)
ClaStart(s, keyOk) ==
  IF ~keyOk THEN Finish(Json(s, 500, ErrorBody))
  ELSE ClaudeRequest(s, DirectPrompt(s.userInput))

ClaResp(s, r) ==
  IF r.kind = "throw" THEN Finish(IF ~s.headersSent THEN Json(s, 500, ErrorBody) ELSE s)
  ELSE IF s.stream THEN Write([s EXCEPT !.pc = "claude_stream"], RoleFrame)
  ELSE LET fullContent == AggContent(r.body)
       IN IF fullContent = <<>> THEN Finish(Json(s, 500, ErrorBody))
          ELSE Finish(Json(s, 200,
                 Completion(fullContent, Len(s.userInput), Len(fullContent))))

\* models/claude-model forces stream = true
ClmStart(s, keyOk) ==
  IF ~keyOk THEN Finish(End(Write(s, ErrorFrame)))
  ELSE ClaudeRequest(s, DirectPrompt(s.userInput))

ClmResp(s, r) ==
  IF r.kind = "throw" THEN Finish(End(Write(s, ErrorFrame)))
  ELSE Write([s EXCEPT !.pc = "claude_stream"], RoleFrame)

(***************************************************************************)
(* The upstream body stalls: no chunk, end or error is delivered any more. *)
(***************************************************************************)
DsStall(s) == [s EXCEPT !.dsConn = "stalled"]

(***************************************************************************)
(* The downstream client closes its connection.  No handler registers a    *)
(* listener on req or res, so no code runs; writes to res from then on are *)
(* still made and discarded by the runtime.                                *)
(***************************************************************************)
ClientDisconnect(s) == [s EXCEPT !.clientGone = TRUE]

(***************************************************************************)
(* Requests to POST /v1/chat/completions.                                  *)
(***************************************************************************)
Content(kind, v) == [kind |-> kind, v |-> v]
Part(type, text) == [type |-> type, text |-> text]
Msg(role, content) == [role |-> role, content |-> content]
Messages(given, list) == [given |-> given, list |-> list]
Request(model, messages) == [model |-> model, messages |-> messages]

\* no request (the handlers do not see req)
NoRequest == Request("absent", Messages(FALSE, <<>>))

Contents ==
  {Content("string", u) : u \in UserInputs \cup {<<>>}}
    \cup {Content("parts", <<>>), Content("parts", <<Part("text", <<"q">>)>>),
          Content("parts", <<Part("image_url", <<"q">>)>>), Content("absent", <<>>)}

LastMessages == {Msg(role, c) : role \in {"user", "assistant"}, c \in Contents}

Requests ==
  {Request(model, ms) :
     model \in {"absent", "deepclaude", "claude", "deepseek", "other"},
     ms \in {Messages(FALSE, <<>>), Messages(TRUE, <<>>)}
             \cup {Messages(TRUE, <<m>>) : m \in LastMessages}
             \cup {Messages(TRUE, <<Msg("user", Content("string", <<"q">>)), m>>) :
                     m \in LastMessages}}

\* the body of a 400 answer of the route, with the keys of its error object
InvalidRequest ==
  [kind |-> "invalid_request", content |-> <<>>, usage |-> <<0, 0, 0>>,
   keys |-> {"message", "type"}]

(***************************************************************************)
(* The session at construction, and the specification.                     *)
(***************************************************************************)
Handlers == {"ds_model", "ds_api", "dc_model", "dc_api", "cl_api", "cl_model"}

NewSession(h, stream, input) ==
  [handler |-> h, stream |-> stream, userInput |-> input, pc |-> "start",
   out |-> <<>>, ended |-> FALSE, headersSent |-> FALSE, status |-> 0,
   body |-> NoBody, threw |-> FALSE, lateWrite |-> FALSE,
   nlines |-> 0, clines |-> 0, isFirstThinking |-> TRUE, isInThinking |-> FALSE,
   hasOutputThinking |-> FALSE, thinkingFinished |-> FALSE, shouldExit |-> FALSE,
   thinking |-> <<>>, thinkingResponse |-> <<>>, answer |-> <<>>, retryCount |-> 0,
   evlog |-> <<>>, convCalls |-> 0, convFailed |-> FALSE, dsCalls |-> 0,
   dsOpened |-> 0, reissued |-> FALSE, dsConn |-> "none", readFailed |-> FALSE,
   timerFired |-> FALSE, usedTimedOut |-> FALSE, emptyEnd |-> FALSE,
   claudeReqs |-> <<>>, fellBack |-> FALSE,
   clientGone |-> FALSE, goneWrite |-> FALSE, upStatus |-> 0,
   ends |-> 0, req |-> NoRequest, malformed |-> FALSE]

(***************************************************************************)
(* api-server.js: POST /v1/chat/completions.  The handlers under models/   *)
(* are called by a router that is not part of the sources; their sessions  *)
(* begin at the handler.                                                   *)
(***************************************************************************)
\* a request as it arrives at the route
NewRequest(stream, req) ==
  [NewSession("route", stream, <<>>) EXCEPT !.pc = "route", !.req = req]

\* item => item.type === 'text' ? item.text : '', joined with ' '
RECURSIVE JoinTexts(_)
JoinTexts(parts) ==
  IF parts = <<>> THEN <<>>
  ELSE LET t == IF Head(parts).type = "text" THEN Head(parts).text ELSE <<>>
       IN IF Len(parts) = 1 THEN t ELSE t \o <<SP>> \o JoinTexts(Tail(parts))

\* userContent
UserContent(content) ==
  IF content.kind = "string" THEN content.v ELSE JoinTexts(content.v)

\* the request is malformed: messages missing or empty, the last message not
\* a user message, or its content empty
Malformed400(req) ==
  \/ ~req.messages.given
  \/ req.messages.list = <<>>
  \/ LET last == req.messages.list[Len(req.messages.list)]
     IN \/ last.role # "user"
        \/ last.content.kind = "absent"
        \/ UserContent(last.content) = <<>>

HandlerFor(modelId) ==
  IF modelId = "deepclaude" THEN "dc_api"
  ELSE IF modelId = "claude" THEN "cl_api"
  ELSE IF modelId = "deepseek" THEN "ds_api"
  ELSE "none"

Route(s) ==
  LET req == s.req
      r == [s EXCEPT !.req = NoRequest, !.malformed = Malformed400(req)]
      bad == Finish(Json(r, 400, InvalidRequest))
  IN IF req.model = "absent" \/ ~req.messages.given \/ req.messages.list = <<>> THEN bad
     ELSE LET userMessage == req.messages.list[Len(req.messages.list)]
          IN IF userMessage.role # "user" THEN bad
             ELSE IF userMessage.content.kind = "absent"
             THEN Finish(Json(r, 500, ErrorBody))
             ELSE IF HandlerFor(req.model) = "none" THEN bad
             ELSE [r EXCEPT !.handler = HandlerFor(req.model), !.pc = "start",
                            !.userInput = UserContent(userMessage.content)]

ModelHandlers == {"ds_model", "dc_model", "cl_model"}

Init ==
  sess \in {NewSession(h, st, u) : h \in Handlers \cap ModelHandlers, st \in BOOLEAN,
                                   u \in UserInputs}
           \cup {NewRequest(st, r) : st \in BOOLEAN, r \in Requests}

At(h, pc) == sess.handler = h /\ sess.pc = pc

\* a body that is being read and still delivers
Reading(h, pc) == At(h, pc) /\ sess.dsConn = "open"

RouteA == At("route", "route") /\ sess' = Route(sess)

DsmStartA == At("ds_model", "start") /\ sess' = DsmStart(sess)
DsmConvA == At("ds_model", "conv") /\ \E ok \in BOOLEAN : sess' = DsmConv(sess, ok)
DsmFetchA == At("ds_model", "fetch") /\ \E r \in FetchResults : sess' = DsmFetch(sess, r)
DsmChunkA == Reading("ds_model", "reading") /\ \E ch \in Chunks(sess) : sess' = DsmChunk(sess, ch)
DsmEndA == Reading("ds_model", "reading") /\ sess' = DsmEnd(sess)
DsmReadErrorA == Reading("ds_model", "reading") /\ sess' = DsmReadError(sess)

DsaStartA == At("ds_api", "start") /\ sess' = DsaStart(sess)
DsaConvA == At("ds_api", "conv") /\ \E ok \in BOOLEAN : sess' = DsaConv(sess, ok)
DsaFetchA == At("ds_api", "fetch") /\ \E r \in FetchResults : sess' = DsaFetch(sess, r)
DsaChunkA == Reading("ds_api", "reading") /\ \E ch \in Chunks(sess) : sess' = DsaChunk(sess, ch)
DsaEndA == Reading("ds_api", "reading") /\ sess' = DsaEnd(sess)
DsaReadErrorA == Reading("ds_api", "reading") /\ sess' = DsaReadError(sess)

DcmStartA == At("dc_model", "start") /\ \E keyOk \in BOOLEAN : sess' = DcmStart(sess, keyOk)
DcmConvA == At("dc_model", "conv") /\ \E ok \in BOOLEAN : sess' = DcmConv(sess, ok)
DcmFetchA == At("dc_model", "fetch") /\ \E r \in FetchResults : sess' = DcmFetch(sess, r)
DcmChunkA == Reading("dc_model", "reading") /\ \E ch \in Chunks(sess) : sess' = DcmChunk(sess, ch)
DcmEndA == Reading("dc_model", "reading") /\ sess' = DcmEnd(sess)
DcmReadErrorA == Reading("dc_model", "reading") /\ sess' = DcmReadError(sess)
DcmPauseA == At("dc_model", "pause") /\ sess' = DcmPause(sess)
DcmRespA ==
  At("dc_model", "claude_req") /\ \E r \in ClaudeResults(sess) : sess' = DcmResp(sess, r)

DcaStartA == At("dc_api", "start") /\ sess' = DcaStart(sess)
DcaConvA ==
  At("dc_api", "conv") /\ \E ok \in BOOLEAN, keyOk \in BOOLEAN : sess' = DcaConv(sess, ok, keyOk)
GdtFetchA ==
  At("dc_api", "gdt_fetch")
    /\ \E r \in FetchResults, keyOk \in BOOLEAN : sess' = GdtFetch(sess, r, keyOk)
GdtChunkA ==
  Reading("dc_api", "gdt_reading")
    /\ \E ch \in Chunks(sess), keyOk \in BOOLEAN : sess' = GdtChunk(sess, ch, keyOk)
GdtEndA ==
  Reading("dc_api", "gdt_reading") /\ \E keyOk \in BOOLEAN : sess' = GdtEnd(sess, keyOk)
GdtReadErrorA ==
  Reading("dc_api", "gdt_reading") /\ \E keyOk \in BOOLEAN : sess' = GdtReadError(sess, keyOk)
GdtTimeoutA == At("dc_api", "gdt_reading") /\ ~sess.timerFired /\ sess' = GdtTimeout(sess)
DcaRespA ==
  At("dc_api", "claude_req") /\ ~sess.fellBack
    /\ \E r \in ClaudeResults(sess) : sess' = DcaResp(sess, r)
FbRespA ==
  At("dc_api", "claude_req") /\ sess.fellBack
    /\ \E r \in ClaudeResults(sess) : sess' = FbResp(sess, r)

ClaStartA == At("cl_api", "start") /\ \E keyOk \in BOOLEAN : sess' = ClaStart(sess, keyOk)
ClaRespA == At("cl_api", "claude_req") /\ \E r \in ClaudeResults(sess) : sess' = ClaResp(sess, r)
ClmStartA == At("cl_model", "start") /\ \E keyOk \in BOOLEAN : sess' = ClmStart(sess, keyOk)
ClmRespA == At("cl_model", "claude_req") /\ \E r \in ClaudeResults(sess) : sess' = ClmResp(sess, r)

ClaudeDataA ==
  sess.pc = "claude_stream" /\ \E ch \in ClaudeChunks(sess) : sess' = ClaudeData(sess, ch)
ClaudeEndA == sess.pc = "claude_stream" /\ sess' = ClaudeEnd(sess)
ClaudeErrorA == sess.pc = "claude_stream" /\ sess' = ClaudeError(sess)

ClientDisconnectA ==
  /\ sess.stream /\ sess.headersSent /\ ~sess.ended /\ ~sess.clientGone
  /\ sess' = ClientDisconnect(sess)

DsStallA == sess.pc \in {"reading", "gdt_reading"} /\ sess.dsConn = "open" /\ sess' = DsStall(sess)

Next ==
  \/ RouteA
  \/ DsmStartA \/ DsmConvA \/ DsmFetchA \/ DsmChunkA \/ DsmEndA \/ DsmReadErrorA
  \/ DsaStartA \/ DsaConvA \/ DsaFetchA \/ DsaChunkA \/ DsaEndA \/ DsaReadErrorA
  \/ DcmStartA \/ DcmConvA \/ DcmFetchA \/ DcmChunkA \/ DcmEndA \/ DcmReadErrorA
  \/ DcmPauseA \/ DcmRespA
  \/ DcaStartA \/ DcaConvA \/ GdtFetchA \/ GdtChunkA \/ GdtEndA \/ GdtReadErrorA
  \/ GdtTimeoutA \/ DcaRespA \/ FbRespA
  \/ ClaStartA \/ ClaRespA \/ ClmStartA \/ ClmRespA
  \/ ClaudeDataA \/ ClaudeEndA \/ ClaudeErrorA
  \/ DsStallA \/ ClientDisconnectA

Spec == Init /\ [][Next]_vars

\* The event loop runs a callback that is ready; an upstream that has stalled
\* leaves none ready.
FairSpec == Spec /\ WF_vars(Next)

(***************************************************************************)
(* The decoding of upstream bodies, byte by byte.  A body is a sequence of *)
(* bytes, delivered in chunks; the reasoning reader (for await over the    *)
(* body) and the answer reader (the 'data' callback) turn the chunks into  *)
(* lines.                                                                  *)
(***************************************************************************)
\* Characters one body has at most.
MaxChars == 4

NL == "\n"
\* U+601D, three bytes in UTF-8
WIDE == "U+601D"
\* U+FFFD, what the decoder puts for bytes that are no character
REPLACEMENT == "U+FFFD"

BodyChars == {"{", "}", "t", WIDE, NL}

\* UTF-8
Utf8(c) == IF c = WIDE THEN <<"E6", "80", "9D">> ELSE <<c>>

RECURSIVE Encode(_)
Encode(cs) == IF cs = <<>> THEN <<>> ELSE Utf8(Head(cs)) \o Encode(Tail(cs))

IsContinuation(b) == b \in {"80", "9D"}

\* new TextDecoder("utf-8").decode(chunk), and chunk.toString(): every call
\* decodes its chunk alone, an incomplete sequence becomes U+FFFD
RECURSIVE Decode(_)
Decode(bs) ==
  IF bs = <<>> THEN <<>>
  ELSE IF Head(bs) = "E6"
  THEN IF Len(bs) >= 3 /\ bs[2] = "80" /\ bs[3] = "9D"
       THEN <<WIDE>> \o Decode(SubSeq(bs, 4, Len(bs)))
       ELSE IF Len(bs) >= 2 /\ bs[2] = "80"
       THEN <<REPLACEMENT>> \o Decode(SubSeq(bs, 3, Len(bs)))
       ELSE <<REPLACEMENT>> \o Decode(Tail(bs))
  ELSE IF IsContinuation(Head(bs)) THEN <<REPLACEMENT>> \o Decode(Tail(bs))
  ELSE <<Head(bs)>> \o Decode(Tail(bs))

\* String.prototype.split("\n"): the pieces between the newlines, at least one
RECURSIVE SplitLines(_)
SplitLines(t) ==
  IF t = <<>> THEN <<(<<>>)>>
  ELSE LET rest == SplitLines(Tail(t))
       IN IF Head(t) = NL THEN <<(<<>>)>> \o rest
          ELSE <<(<<Head(t)>> \o Head(rest))>> \o Tail(rest)

\* one iteration of the reasoning reader: decode, append to the buffer, split,
\* keep the last piece for the next chunk
\* RdChunk of a reader that hands the fragment left after the last chunk to
\* the line loop
RdChunkFlushLast(d, chunk) ==
  LET buffer == d.buffer \o Decode(chunk)
      lines == SplitLines(buffer)
      last == d.fed + 1 = Len(d.chunks)
  IN [d EXCEPT !.lines = @ \o (IF last THEN SelectSeq(lines, LAMBDA l : TRUE)
                                ELSE SubSeq(lines, 1, Len(lines) - 1)),
               !.buffer = IF last THEN <<>> ELSE lines[Len(lines)]]

RdChunk(d, chunk) ==
  LET buffer == d.buffer \o Decode(chunk)
      lines == SplitLines(buffer)
  IN [d EXCEPT !.lines = @ \o SubSeq(lines, 1, Len(lines) - 1),
               !.buffer = lines[Len(lines)]]

\* JSON.parse(line) and the test for a text delta: a line "{...}" is a delta
\* with the text between the braces, anything else is not one
IsDelta(line) ==
  /\ Len(line) >= 2 /\ line[1] = "{" /\ line[Len(line)] = "}"
  /\ \A i \in 2..(Len(line) - 1) : line[i] \notin {"{", "}"}

DeltaText(line) == SubSeq(line, 2, Len(line) - 1)

RECURSIVE ForwardedText(_)
ForwardedText(lines) ==
  IF lines = <<>> THEN <<>>
  ELSE (IF IsDelta(Head(lines)) THEN DeltaText(Head(lines)) ELSE <<>>)
         \o ForwardedText(Tail(lines))

\* the 'data' callback of the answer stream: the chunk is split and every
\* non-blank piece parsed on its own
AnsData(d, chunk) ==
  LET lines == SplitLines(Decode(chunk))
  IN [d EXCEPT !.lines = @ \o SelectSeq(lines, LAMBDA l : l # <<>>),
               !.text = @ \o ForwardedText(lines)]

\* a reader at the start of a body that arrives in the given chunks
NewReader(reader, input, chunks) ==
  [handler |-> "reader", reader |-> reader, pc |-> "feeding", input |-> input,
   chunks |-> chunks, fed |-> 0, buffer |-> <<>>, lines |-> <<>>, text |-> <<>>]

\* the readers run to the end of a body that arrives in the given chunks
RECURSIVE RdRun(_, _)
RdRun(d, chunks) ==
  IF chunks = <<>> THEN d ELSE RdRun(RdChunk(d, Head(chunks)), Tail(chunks))

RECURSIVE AnsRun(_, _)
AnsRun(d, chunks) ==
  IF chunks = <<>> THEN d ELSE AnsRun(AnsData(d, Head(chunks)), Tail(chunks))

BodyInputs == {Encode(cs) : cs \in SeqsUpTo(BodyChars, MaxChars)}

\* the body in two chunks, cut at a byte offset
CutAt(input, k) == <<SubSeq(input, 1, k), SubSeq(input, k + 1, Len(input))>>

ReaderInit ==
  sess \in UNION {{NewReader(rd, input, CutAt(input, k)) :
                      rd \in {"reasoning", "answer"}, k \in 0..Len(input)} :
                   input \in BodyInputs}

Fed(d) ==
  [d EXCEPT !.fed = @ + 1, !.pc = IF d.fed + 1 = Len(d.chunks) THEN "fed" ELSE @]

RdChunkA ==
  /\ At("reader", "feeding") /\ sess.reader = "reasoning"
  /\ sess' = Fed(RdChunk(sess, sess.chunks[sess.fed + 1]))

AnsDataA ==
  /\ At("reader", "feeding") /\ sess.reader = "answer"
  /\ sess' = Fed(AnsData(sess, sess.chunks[sess.fed + 1]))

ReaderNext == RdChunkA \/ AnsDataA

ReaderSpec == ReaderInit /\ [][ReaderNext]_vars

(***************************************************************************)
(* The server: its configuration, the token file, the two admin routes and *)
(* two chat sessions of handleClaudeRequest (api-server.js) in progress at *)
(* the same time.  The state is one record; chats[c] is the session record *)
(* of chat c (the locals of its handler call) and keys[c] the API_KEY that *)
(* call read.                                                              *)
(***************************************************************************)
\* Text deltas the answer upstream delivers to one of the two chat sessions at
\* most.
MaxDeltas == 1

Chats == {1, 2}

DefaultAdminKey == "change-this-admin-key"

\* config.yaml and the environment as read at startup: claude.api_key, whether
\* claude.api_key_path is set, and the admin key ("" when none is set)
Config(apiKey, pathSet, adminKey) ==
  [apiKey |-> apiKey, pathSet |-> pathSet, adminKey |-> adminKey]

Configs ==
  {Config("", TRUE, "adm"), Config("cfg", TRUE, "adm"), Config("", FALSE, "adm"),
   Config("", TRUE, "")}

\* process.env.ADMIN_KEY || config.server.admin_key || 'change-this-admin-key'
ValidAdminKey(config) ==
  IF config.adminKey # "" THEN config.adminKey ELSE DefaultAdminKey

\* the token file: its text is a sequence of tokens and newlines
File(exists, text) == [exists |-> exists, text |-> text]

NoFile == File(FALSE, <<>>)

\* an element of a token array of a request body: a string, or an object
\* {name, value}
Item(kind, name, value) == [kind |-> kind, name |-> name, value |-> value]

StringItem(value) == Item("string", "", value)
ObjectItem(name, value) == Item("object", name, value)

\* the string Array.prototype.join puts for an element
ItemString(item) == IF item.kind = "string" THEN item.value ELSE "[object Object]"

\* tokens.join('\n')
RECURSIVE Join(_)
Join(items) ==
  IF items = <<>> THEN <<>>
  ELSE IF Len(items) = 1 THEN <<ItemString(items[1])>>
  ELSE <<ItemString(Head(items)), NL>> \o Join(Tail(items))

\* String.prototype.trim on the text of the file
RECURSIVE TrimText(_)
TrimText(t) ==
  IF t # <<>> /\ Head(t) = NL THEN TrimText(Tail(t))
  ELSE IF t # <<>> /\ t[Len(t)] = NL THEN TrimText(SubSeq(t, 1, Len(t) - 1))
  ELSE t

\* content.split('\n').filter(line => line.trim() !== '')
FileTokens(text) == SelectSeq(SplitLines(text), LAMBDA l : l # <<>>)

\* no key: getClaudeApiKey returns null
NoKey == <<>>

\* getClaudeApiKey: the configured key when there is one, the trimmed text of
\* the token file otherwise
getClaudeApiKey(srv) ==
  IF srv.config.apiKey # "" THEN <<srv.config.apiKey>>
  ELSE IF ~srv.config.pathSet \/ ~srv.file.exists THEN NoKey
  ELSE TrimText(srv.file.text)

\* a field of a request body: absent, an array, or another value
Field(kind, list) == [kind |-> kind, list |-> list]

Absent == Field("absent", <<>>)

Body(api_tokens, tokens) == [api_tokens |-> api_tokens, tokens |-> tokens]

\* the simple and the detailed format of the README, arrays of strings under
\* the key tokens, and bodies without a token array
SimpleBodies ==
  {Body(Field("array", <<StringItem("k1")>>), Absent),
   Body(Field("array", <<StringItem("k1"), StringItem("k2")>>), Absent)}

DetailedBodies ==
  {Body(Absent, Field("array", <<ObjectItem("claude_api_key", "k1")>>)),
   Body(Absent, Field("array", <<ObjectItem("claude_api_key", "k1"),
                                 ObjectItem("deepseek_api_key", "k2")>>))}

Bodies ==
  SimpleBodies \cup DetailedBodies
    \cup {Body(Absent, Field("array", <<StringItem("k1")>>)),
          Body(Absent, Field("array", <<StringItem("k2"), StringItem("k1")>>)),
          Body(Absent, Field("array", <<>>)),
          Body(Absent, Absent),
          Body(Absent, Field("other", <<>>))}

\* the x-admin-key header ("" when it is missing)
AdminHeaders == {"", "adm", "wrong", DefaultAdminKey}

\* the last admin request handled and its response: the route, the header,
\* the body (read only once the key was accepted), the status and the tokens
\* the response lists
Res(route, adminKey, body, status, tokens) ==
  [route |-> route, adminKey |-> adminKey, body |-> body, status |-> status,
   tokens |-> tokens]

NoRes == Res("none", "", Body(Absent, Absent), 0, <<>>)

Rejected(route, adminKey) == Res(route, adminKey, Body(Absent, Absent), 401, <<>>)

\* POST /admin/update-tokens; ioOk: the file system lets the file be written
\* UpdateTokens without lines 1593-1602: the admin key is not examined
UpdateTokensNoAuth(srv, adminKey, body, ioOk) ==
  LET route == "update-tokens"
  IN IF body.tokens.kind # "array"
     THEN [srv EXCEPT !.adminRes = Res(route, adminKey, body, 400, <<>>)]
     ELSE IF ~srv.config.pathSet \/ ~ioOk
     THEN [srv EXCEPT !.adminRes = Res(route, adminKey, body, 500, <<>>)]
     ELSE [srv EXCEPT !.file = File(TRUE, Join(body.tokens.list)),
                      !.adminRes = Res(route, adminKey, body, 200, <<>>)]

UpdateTokens(srv, adminKey, body, ioOk) ==
  LET route == "update-tokens"
  IN IF adminKey = "" \/ adminKey # ValidAdminKey(srv.config)
     THEN [srv EXCEPT !.adminRes = Rejected(route, adminKey)]
     ELSE IF body.tokens.kind # "array"
     THEN [srv EXCEPT !.adminRes = Res(route, adminKey, body, 400, <<>>)]
     ELSE IF ~srv.config.pathSet \/ ~ioOk
     THEN [srv EXCEPT !.adminRes = Res(route, adminKey, body, 500, <<>>)]
     ELSE [srv EXCEPT !.file = File(TRUE, Join(body.tokens.list)),
                      !.adminRes = Res(route, adminKey, body, 200, <<>>)]

\* GET /admin/tokens; ioOk: the file system lets the file be read
AdminTokens(srv, adminKey, ioOk) ==
  LET route == "tokens"
      none == Body(Absent, Absent)
  IN IF adminKey = "" \/ adminKey # ValidAdminKey(srv.config)
     THEN [srv EXCEPT !.adminRes = Rejected(route, adminKey)]
     ELSE IF ~srv.config.pathSet
     THEN [srv EXCEPT !.adminRes = Res(route, adminKey, none, 500, <<>>)]
     ELSE IF ~srv.file.exists
     THEN [srv EXCEPT !.adminRes = Res(route, adminKey, none, 200, <<>>)]
     ELSE IF ~ioOk
     THEN [srv EXCEPT !.adminRes = Res(route, adminKey, none, 500, <<>>)]
     ELSE [srv EXCEPT !.adminRes =
             Res(route, adminKey, none, 200, FileTokens(srv.file.text))]

\* the keys the answer provider accepts in the Authorization header
ProviderKeys == {<<"k0">>, <<"k1">>, <<"k2">>, <<"cfg">>}

\* the variables of one handler call are its own
\* SetChat with the accumulated answer text kept in a variable of the module
SetChatSharedText(srv, c, s) ==
  [srv EXCEPT !.chats = [d \in Chats |-> IF d = c THEN s
                                         ELSE [srv.chats[d] EXCEPT !.answer = s.answer]]]

SetChat(srv, c, s) == [srv EXCEPT !.chats[c] = s]

\* handleClaudeRequest up to the axios call: the key is read
ChatStart(srv, c) ==
  LET API_KEY == getClaudeApiKey(srv)
  IN [SetChat(srv, c, ClaStart(srv.chats[c], API_KEY # NoKey)) EXCEPT !.keys[c] = API_KEY]

ChatResp(srv, c, r) == SetChat(srv, c, ClaResp(srv.chats[c], r))
ChatData(srv, c, ch) == SetChat(srv, c, ClaudeData(srv.chats[c], ch))
ChatEnd(srv, c) == SetChat(srv, c, ClaudeEnd(srv.chats[c]))
ChatError(srv, c) == SetChat(srv, c, ClaudeError(srv.chats[c]))

NewServer(config, file) ==
  [handler |-> "server", pc |-> "serving", config |-> config, file |-> file,
   chats |-> [c \in Chats |-> NewSession("cl_api", TRUE, <<"q">>)],
   keys |-> [c \in Chats |-> NoKey], adminRes |-> NoRes]

ServerInit ==
  sess \in {NewServer(config, file) :
              config \in Configs, file \in {NoFile, File(TRUE, <<"k0">>)}}

ChatAt(c, pc) == At("server", "serving") /\ sess.chats[c].pc = pc

UpdateTokensA ==
  /\ At("server", "serving")
  /\ \E adminKey \in AdminHeaders, body \in Bodies, ioOk \in BOOLEAN :
       sess' = UpdateTokens(sess, adminKey, body, ioOk)

AdminTokensA ==
  /\ At("server", "serving")
  /\ \E adminKey \in AdminHeaders, ioOk \in BOOLEAN :
       sess' = AdminTokens(sess, adminKey, ioOk)

ChatStartA == \E c \in Chats : ChatAt(c, "start") /\ sess' = ChatStart(sess, c)

\* the provider answers 2xx only to a key it accepts; axios rejects otherwise
ChatRespA ==
  \E c \in Chats :
    /\ ChatAt(c, "claude_req")
    /\ \E r \in ClaudeResults(sess.chats[c]) :
         /\ r.kind = "ok" => sess.keys[c] \in ProviderKeys
         /\ sess' = ChatResp(sess, c, r)

ChatDataA ==
  \E c \in Chats :
    /\ ChatAt(c, "claude_stream") /\ sess.chats[c].clines < MaxDeltas
    /\ sess' = ChatData(sess, c, <<CLine("delta", <<"t">>)>>)

ChatEndA == \E c \in Chats : ChatAt(c, "claude_stream") /\ sess' = ChatEnd(sess, c)

ChatErrorA == \E c \in Chats : ChatAt(c, "claude_stream") /\ sess' = ChatError(sess, c)

ServerNext ==
  \/ UpdateTokensA \/ AdminTokensA
  \/ ChatStartA \/ ChatRespA \/ ChatDataA \/ ChatEndA \/ ChatErrorA

ServerSpec == ServerInit /\ [][ServerNext]_vars

(***************************************************************************)
(* models/claude-model and models/deepclaude-model: initialize and         *)
(* getClaudeApiKey(req).  A text is a sequence of characters; "Bearer"     *)
(* stands for the six letters, SP for a whitespace character.              *)
(***************************************************************************)
\* "Bearer "
BEARER == <<"Bearer", SP>>

\* apiKey.startsWith("Bearer ")
StartsWithBearer(t) == Len(t) >= 2 /\ SubSeq(t, 1, 2) = BEARER

\* a key, or null
Key(text) == [null |-> FALSE, text |-> text]

Null == [null |-> TRUE, text |-> <<>>]

\* req.headers.authorization: absent, or a text
Header(given, text) == [given |-> given, text |-> text]

Headers ==
  {Header(FALSE, <<>>)}
    \cup {Header(TRUE, t) : t \in {<<>>, <<"h">>, BEARER \o <<"h">>, <<"Bearer">>}}

\* config.claude: api_key, api_key_path and header_token_config ("" when the
\* setting is missing)
ClaudeConfig(api_key, api_key_path, header_token_config) ==
  [api_key |-> api_key, api_key_path |-> api_key_path,
   header_token_config |-> header_token_config]

ClaudeConfigs ==
  {ClaudeConfig(k, p, h) :
     k \in {<<>>, <<SP>>, <<"c">>, <<SP, "c">>, BEARER \o <<"c">>},
     p \in {<<>>, <<SP>>, <<"p">>},
     h \in {"", "ignore", "add"}}

\* the file at api_key_path
KeyFiles ==
  {NoFile, File(TRUE, <<>>), File(TRUE, <<SP>>), File(TRUE, <<"f", SP>>),
   File(TRUE, BEARER \o <<"f">>)}

\* the module variables initialize(config) sets
initialize(config) ==
  [CLAUDE_API_KEY |-> config.api_key, CLAUDE_API_KEY_PATH |-> config.api_key_path,
   HEADER_TOKEN_CONFIG |->
     IF config.header_token_config = "" THEN "ignore" ELSE config.header_token_config]

NotInitialized ==
  [CLAUDE_API_KEY |-> <<>>, CLAUDE_API_KEY_PATH |-> <<>>, HEADER_TOKEN_CONFIG |-> ""]

\* getTokenFromRequest that adds the prefix whatever HEADER_TOKEN_CONFIG says
getTokenFromRequestAlwaysPrefix(m, authHeader) ==
  IF authHeader.given /\ authHeader.text # <<>>
  THEN IF StartsWithBearer(authHeader.text) THEN Key(authHeader.text)
       ELSE Key(BEARER \o authHeader.text)
  ELSE Null

getTokenFromRequest(m, authHeader) ==
  IF authHeader.given /\ authHeader.text # <<>>
  THEN IF StartsWithBearer(authHeader.text) THEN Key(authHeader.text)
       ELSE IF m.HEADER_TOKEN_CONFIG = "ignore" THEN Null
       ELSE Key(BEARER \o authHeader.text)
  ELSE Null

\* if (!apiKey.startsWith("Bearer ")) return `Bearer ${apiKey}`; return apiKey
WithBearer(apiKey) == IF StartsWithBearer(apiKey) THEN apiKey ELSE BEARER \o apiKey

\* getClaudeApiKey(req) of the model modules; readOk: fs.readFileSync does not
\* throw
ModelGetClaudeApiKey(m, authHeader, file, readOk) ==
  LET reqToken == getTokenFromRequest(m, authHeader)
  IN IF ~reqToken.null THEN reqToken
     ELSE IF Trim(m.CLAUDE_API_KEY) # <<>> THEN Key(WithBearer(Trim(m.CLAUDE_API_KEY)))
     ELSE IF \/ Trim(m.CLAUDE_API_KEY_PATH) = <<>> \/ ~file.exists \/ ~readOk
             \/ Trim(file.text) = <<>>
     THEN Null
     ELSE Key(WithBearer(Trim(file.text)))

\* a module before initialize, with the configuration and the key file
NewModule(config, file) ==
  [handler |-> "module", pc |-> "load", config |-> config, file |-> file,
   module |-> NotInitialized, calls |-> 0, header |-> Header(FALSE, <<>>),
   readOk |-> TRUE, result |-> Null]

ModuleInit == sess \in {NewModule(c, f) : c \in ClaudeConfigs, f \in KeyFiles}

InitializeA ==
  /\ At("module", "load")
  /\ sess' = [sess EXCEPT !.pc = "ready", !.module = initialize(sess.config)]

GetClaudeApiKeyA ==
  /\ At("module", "ready") /\ sess.calls = 0
  /\ \E authHeader \in Headers, readOk \in BOOLEAN :
       sess' = [sess EXCEPT !.calls = 1, !.header = authHeader, !.readOk = readOk,
                            !.result = ModelGetClaudeApiKey(sess.module, authHeader,
                                                            sess.file, readOk)]

ModuleNext == InitializeA \/ GetClaudeApiKeyA

ModuleSpec == ModuleInit /\ [][ModuleNext]_vars

(***************************************************************************)
(* Properties of the frames written downstream.                            *)
(***************************************************************************)
Positions(k) == {i \in 1..Len(sess.out) : sess.out[i].k = k}

Written(k) == Positions(k) # {}

Streaming(hs) == sess.stream /\ sess.handler \in hs

\* the frames of out that carry content of the reply
RECURSIVE ContentFrames(_)
ContentFrames(o) ==
  IF o = <<>> THEN <<>>
  ELSE (IF Head(o).k \in {"think", "answer", "block"} THEN <<Head(o)>> ELSE <<>>)
         \o ContentFrames(Tail(o))

C2_OpenIsClosed ==
  (sess.stream /\ sess.ended /\ Written("open")) =>
    Cardinality({c \in Positions("close") : \A o \in Positions("open") : o < c}) = 1

\* C3: in every streaming session the terminal frame is written at most once,
\* the sentinel is written exactly when the terminal frame is, directly after
\* it, and the sentinel is the last frame written.
C3_DoneTerminal ==
  sess.stream =>
    /\ Cardinality(Positions("stop")) <= 1
    /\ Cardinality(Positions("done")) <= 1
    /\ \A i \in Positions("stop") : i < Len(sess.out) /\ sess.out[i + 1].k = "done"
    /\ \A i \in Positions("done") :
         i = Len(sess.out) /\ i > 1 /\ sess.out[i - 1].k = "stop"
    /\ ~sess.lateWrite

C3_Witness ==
  /\ sess.stream /\ sess.ended /\ Written("done")
  /\ Written("answer") /\ sess.handler = "dc_api"

\* C4: in a streaming session of handleDeepSeekRequest (api-server.js and
\* models/deepseek-model) the content frames written downstream are the
\* Thinking and Answer events received, one frame per event, in their order.
C4_FramesFollowEvents ==
  Streaming({"ds_model", "ds_api"}) =>
    ContentFrames(sess.out) =
      [i \in 1..Len(sess.evlog) |->
         Frame(sess.evlog[i].k, sess.evlog[i].t)]

(***************************************************************************)
(* Properties of the hybrid flow.                                          *)
(***************************************************************************)
Hybrid == sess.handler \in {"dc_api", "dc_model"}

InReasoning == sess.pc \in {"gdt_fetch", "gdt_reading"}

LastFrameIs(k) == sess.out # <<>> /\ sess.out[Len(sess.out)].k = k

C6_BootstrapRetriedThrice ==
  (Hybrid /\ sess.convFailed /\ sess.fellBack) => sess.convCalls = 1 + MaxRetries

\* C6, amended: createConversation is called once per session and never
\* retried; when it fails no reasoning request is issued, api-server.js goes
\* to the fallback at once and models/deepclaude-model ends with an error.
C6_BootstrapOnceThenFallback ==
  Hybrid =>
    /\ sess.convCalls <= 1
    /\ sess.convFailed =>
         /\ sess.convCalls = 1 /\ sess.dsCalls = 0
         /\ sess.handler = "dc_api" => sess.fellBack
         /\ sess.handler = "dc_model" =>
              /\ ~sess.fellBack /\ sess.pc = "done" /\ sess.claudeReqs = <<>>
              /\ IF sess.stream THEN sess.ended /\ LastFrameIs("error")
                 ELSE sess.status = 500

C6_Witness ==
  /\ sess.handler = "dc_api" /\ sess.convFailed /\ sess.fellBack
  /\ sess.claudeReqs = <<sess.userInput>>

\* C7 as stated: after a reasoning stream has been opened the reasoning request
\* is not issued again in the session.
C7_StreamNeverReissued == Hybrid => ~sess.reissued

\* C7, amended: the retry loop of api-server.js is around the reasoning request
\* itself: it is issued at most 1 + maxRetries times, and again only while no
\* attempt has returned thinking text, also after a stream that was opened and
\* ended empty, failed or timed out; models/deepclaude-model issues it once.
C7_ReasoningReissuedOnlyWhileEmpty ==
  /\ sess.handler = "dc_model" => sess.dsCalls <= 1 /\ ~sess.reissued
  /\ sess.handler = "dc_api" =>
       /\ sess.dsCalls <= MaxRetries + 1
       /\ sess.dsOpened <= sess.dsCalls
       /\ InReasoning => sess.dsCalls = sess.retryCount + 1 /\ sess.thinking = <<>>
       /\ ~InReasoning => sess.dsCalls = sess.retryCount

C7_Witness ==
  /\ sess.handler = "dc_api" /\ sess.reissued /\ sess.dsOpened = MaxRetries + 1
  /\ sess.pc = "gdt_reading"

BeginsWith(t, prefix) ==
  Len(t) >= Len(prefix) /\ SubSeq(t, 1, Len(prefix)) = prefix

\* C8: when the fallback produces output its answer request carried the user's
\* input unchanged, the notice is the first content delta (streaming) or the
\* prefix of the content (aggregate), every answer delta follows the notice,
\* and no thinking marker or thinking text is written.
C8_FallbackOutput ==
  (sess.handler = "dc_api" /\ sess.fellBack) =>
    /\ sess.claudeReqs \in {<<>>, <<sess.userInput>>}
    /\ (sess.out # <<>> \/ sess.body.kind = "completion") =>
         sess.claudeReqs = <<sess.userInput>>
    /\ sess.out # <<>> =>
         /\ Len(sess.out) >= 2
         /\ sess.out[1] = RoleFrame /\ sess.out[2] = NoticeFrame
         /\ Positions("notice") = {2}
         /\ \A i \in 3..Len(sess.out) : sess.out[i].k \in {"answer", "stop", "done"}
    /\ sess.body.kind = "completion" =>
         /\ BeginsWith(sess.body.content, NOTICE)
         /\ Len(sess.body.content) > Len(NOTICE)
         /\ ~(\E i \in 1..Len(sess.body.content) :
                sess.body.content[i] \in {OPEN[1], CLOSE[1]})

C8_Witness ==
  /\ sess.handler = "dc_api" /\ sess.fellBack /\ sess.stream /\ sess.ended
  /\ Cardinality(Positions("answer")) >= 2 /\ Written("done")

\* the last attempt of the reasoning step is reading, the two before it gave
\* nothing, and its timer has fired with no thinking text collected
LastFeedTimedOut ==
  /\ sess.handler = "dc_api" /\ sess.pc = "gdt_reading"
  /\ sess.retryCount = MaxRetries /\ sess.timerFired /\ sess.thinkingResponse = <<>>

\* C9: a session whose last reasoning attempt timed out without thinking text
\* leaves the reasoning step, so that it can fall back.
C9_TimedOutFeedIsLeft == LastFeedTimedOut ~> (sess.pc # "gdt_reading")

\* C10: a session whose reasoning upstream has stalled ends, with the upstream
\* connection closed.
C10_StalledReadEnds ==
  (sess.dsConn = "stalled") ~> (sess.ended /\ sess.dsConn = "closed")

(***************************************************************************)
(* Properties of cancellation and of the error paths.                      *)
(***************************************************************************)
\* C11: once the downstream client has disconnected from a streaming session,
\* no further frame write is attempted for it (the upstream read is aborted,
\* not drained).
C11_NoWriteAfterDisconnect == (sess.stream /\ sess.clientGone) => ~sess.goneWrite

\* the session is over and has answered with nothing but an error, reported
\* before any chat-completion frame was written
EarlyFailed ==
  /\ sess.pc = "done"
  /\ sess.body.kind = "error" \/ (sess.out # <<>> /\ sess.out[1].k = "error")

C13_StartedStreamEndsWithSignal ==
  (sess.ended /\ sess.out # <<>>) => Written("done") \/ Written("error")

\* the session is over on an error path: it has sent neither the sentinel nor
\* a completion
ErrorPathTaken ==
  sess.pc = "done" /\ ~Written("done") /\ sess.body.kind # "completion"

\* C14: a session that is over on an error path has closed its response, and
\* closed it once: by an HTTP error response when nothing was sent, by ending
\* the stream otherwise.
C14_ErrorPathClosesOnce ==
  ErrorPathTaken =>
    /\ sess.ended /\ sess.ends = 1 /\ ~sess.threw /\ ~sess.lateWrite
    /\ sess.out = <<>> => sess.body.kind \in {"error", "invalid_request"} /\ sess.status >= 400
    /\ sess.out # <<>> => sess.body = NoBody /\ sess.status = 200

C14_Witness ==
  /\ ErrorPathTaken /\ sess.handler = "dc_api" /\ ~sess.fellBack
  /\ sess.claudeReqs # <<>> /\ sess.status = 500

\* C15: a request that is malformed (messages missing or empty, last message
\* not from the user, or its content empty) is answered with HTTP 400 and an
\* error object with the keys message, type, param and code, and no upstream
\* call is made for it.
C15_MalformedIs400 ==
  (sess.malformed /\ sess.pc # "route") =>
    /\ sess.status = 400 /\ sess.body.kind = "invalid_request"
    /\ sess.body.keys = {"message", "type", "param", "code"}
    /\ sess.convCalls = 0 /\ sess.dsCalls = 0 /\ sess.claudeReqs = <<>>

\* the part of C15 that is about upstream calls alone
C15_MalformedMakesNoUpstreamCall ==
  sess.malformed => sess.convCalls = 0 /\ sess.dsCalls = 0 /\ sess.claudeReqs = <<>>

(***************************************************************************)
(* Properties of the readers.                                              *)
(***************************************************************************)
\* the bytes before the cut are whole characters
CutAtCharacter == \E cs \in SeqsUpTo(BodyChars, MaxChars) : Encode(cs) = sess.chunks[1]

\* C16: the reasoning line decoder yields the same lines for a body delivered
\* in two chunks, cut at any byte offset, as for the body delivered whole.
C16_SplitDecodesSame ==
  (sess.reader = "reasoning" /\ sess.pc = "fed") =>
    sess.lines = RdRun(NewReader("reasoning", sess.input, <<>>), <<sess.input>>).lines

\* what does hold of the decoder: a cut between two characters changes nothing
C16_CharacterCutDecodesSame ==
  (sess.reader = "reasoning" /\ sess.pc = "fed" /\ CutAtCharacter) =>
    sess.lines = RdRun(NewReader("reasoning", sess.input, <<>>), <<sess.input>>).lines

\* C17: the answer text forwarded for a body delivered in two chunks, cut at
\* any position, is the text forwarded for the body delivered whole.
C17_SplitForwardsSame ==
  (sess.reader = "answer" /\ sess.pc = "fed") =>
    sess.text = AnsRun(NewReader("answer", sess.input, <<>>), <<sess.input>>).text

(***************************************************************************)
(* Properties of the order of the frames and of the answer stage.          *)
(***************************************************************************)
\* C18: a session that writes a chat-completion chunk writes the role frame
\* first and once; it precedes every content, marker and error frame.
C18_RoleFrameFirst ==
  (\E i \in 1..Len(sess.out) : sess.out[i].k # "error") =>
    sess.out[1] = RoleFrame /\ Positions("role") = {1}

C18_Witness ==
  /\ sess.handler = "dc_model" /\ sess.out # <<>> /\ sess.out[1] = RoleFrame
  /\ Written("open") /\ Written("think") /\ Written("error")

\* the text of the thinking deltas written so far
RECURSIVE ThinkText(_)
ThinkText(o) ==
  IF o = <<>> THEN <<>>
  ELSE (IF Head(o).k = "think" THEN Head(o).t ELSE <<>>) \o ThinkText(Tail(o))

\* C19: in a streaming hybrid session the thinking text collected so far has
\* been written downstream, delta by delta, as it was decoded.
C19_ThinkingWrittenLive ==
  Streaming({"dc_api", "dc_model"}) =>
    ThinkText(sess.out) =
      (IF sess.handler = "dc_api" THEN sess.thinkingResponse ELSE sess.thinking)

\* the answer stage of a hybrid session failed: the answer request was made
\* with the thinking text and the session is over without a full answer
AnswerFailed ==
  Hybrid /\ ~sess.fellBack /\ sess.claudeReqs # <<>> /\ ErrorPathTaken

\* C20: a failure of the answer stage of a hybrid session is reported to the
\* caller as an error, and leads to no fallback, no second answer request and
\* no further reasoning request.
C20_AnswerFailureReported ==
  AnswerFailed =>
    /\ sess.body = ErrorBody \/ Written("error")
    /\ Len(sess.claudeReqs) = 1
    /\ sess.handler = "dc_api" => sess.dsCalls = sess.retryCount
    /\ sess.handler = "dc_model" => sess.dsCalls = 1

\* the part of C20 that is about what the failure does not trigger
C20_AnswerFailureIsFinal ==
  AnswerFailed =>
    /\ Len(sess.claudeReqs) = 1
    /\ sess.handler = "dc_api" => sess.dsCalls = sess.retryCount
    /\ sess.handler = "dc_model" => sess.dsCalls = 1

(***************************************************************************)
(* Properties of the aggregate (non-streaming) responses.                  *)
(***************************************************************************)
\* an aggregate session of a handler that collects thinking text has answered
\* with a completion (the fallback, which has no thinking text, apart)
AggregateAnswered ==
  /\ ~sess.stream /\ sess.body.kind = "completion" /\ ~sess.fellBack
  /\ sess.handler \in {"ds_model", "ds_api", "dc_model", "dc_api"}

\* the thinking text wrapped in the delimiter block
ThinkingBlock(thinking) == OPEN \o Trim(thinking) \o CLOSE

\* C21: the content of an aggregate completion is the thinking block followed
\* by the answer text when thinking text was obtained, and the answer text
\* alone when there was none (thinking text of whitespace only may go either
\* way).
C21_AggregateContent ==
  AggregateAnswered =>
    /\ Trim(sess.thinking) # <<>> =>
         sess.body.content = ThinkingBlock(sess.thinking) \o sess.answer
    /\ sess.thinking = <<>> => sess.body.content = sess.answer
    /\ sess.body.content \in {ThinkingBlock(sess.thinking) \o sess.answer, sess.answer}

\* what holds of the handlers other than handleDeepClaudeRequest of
\* api-server.js
C21_AggregateContentElsewhere ==
  (AggregateAnswered /\ sess.handler # "dc_api") =>
    /\ Trim(sess.thinking) # <<>> =>
         sess.body.content = ThinkingBlock(sess.thinking) \o sess.answer
    /\ sess.thinking = <<>> => sess.body.content = sess.answer
    /\ sess.body.content \in {ThinkingBlock(sess.thinking) \o sess.answer, sess.answer}


(***************************************************************************)
(* The two modes of handleDeepSeekRequest on the same upstream events.     *)
(***************************************************************************)
\* the content of the deltas written, concatenated in the order written
RECURSIVE StreamText(_)
StreamText(o) ==
  IF o = <<>> THEN <<>>
  ELSE (IF Head(o).k \in {"open", "think", "close", "answer", "block"} THEN Head(o).t
        ELSE <<>>) \o StreamText(Tail(o))

\* the upstream lines that were decoded as the given events
LinesOf(events) ==
  [i \in 1..Len(events) |->
     Line("answer", IF events[i].k = "think" THEN "thinking" ELSE "text", events[i].t)]

\* the message content the handler returns in aggregate mode when the upstream
\* delivers the given lines and ends
AggregateOf(h, lines) ==
  LET s0 == [NewSession(h, FALSE, <<"q">>) EXCEPT !.pc = "reading", !.dsConn = "open"]
  IN IF h = "ds_model" THEN DsmEnd(DsmChunk(s0, lines)).body.content
     ELSE DsaEnd(DsaChunk(s0, lines)).body.content

\* a content with the text inside its first delimiter block trimmed
TrimInsideBlock(c) ==
  LET opens == {i \in 1..Len(c) : c[i] = OPEN[1]}
      closes == {j \in 1..Len(c) : c[j] = CLOSE[1] /\ \E i \in opens : i < j}
  IN IF closes = {} THEN c
     ELSE LET j == CHOOSE x \in closes : \A y \in closes : x <= y
              i == CHOOSE x \in opens : x < j /\ \A y \in opens : y < j => y <= x
          IN SubSeq(c, 1, i) \o Trim(SubSeq(c, i + 1, j - 1)) \o SubSeq(c, j, Len(c))

\* a streaming session of handleDeepSeekRequest whose upstream ended cleanly
DsStreamedToEnd ==
  Streaming({"ds_model", "ds_api"}) /\ sess.pc = "done" /\ Written("done")

\* no Thinking event after an Answer event
ThinkingFirst(events) ==
  \A i, j \in 1..Len(events) : (events[i].k = "answer" /\ events[j].k = "think") => j < i

\* C22: for every upstream event sequence the deltas of the streaming mode,
\* concatenated in emission order, are the message content of the aggregate
\* mode for the same sequence, up to trimming of the thinking text inside the
\* delimiter block.
C22_RoundTrip ==
  DsStreamedToEnd =>
    TrimInsideBlock(StreamText(sess.out))
      = TrimInsideBlock(AggregateOf(sess.handler, LinesOf(sess.evlog)))

\* what holds: the round trip for sequences with every Thinking event before
\* the first Answer event
C22_RoundTripThinkingFirst ==
  (DsStreamedToEnd /\ ThinkingFirst(sess.evlog)) =>
    TrimInsideBlock(StreamText(sess.out))
      = TrimInsideBlock(AggregateOf(sess.handler, LinesOf(sess.evlog)))

\* C23: every aggregate completion reports prompt_tokens = the length of the
\* user's input, completion_tokens = the length of the content returned, and
\* total_tokens = their sum.
C23_UsageIsLengths ==
  (~sess.stream /\ sess.body.kind = "completion") =>
    sess.body.usage = <<Len(sess.userInput), Len(sess.body.content),
                        Len(sess.userInput) + Len(sess.body.content)>>

\* what holds: total_tokens is the sum of the two counters everywhere, and the
\* counters are those lengths in every handler but the two hybrid ones
C23_UsageElsewhere ==
  (~sess.stream /\ sess.body.kind = "completion") =>
    /\ sess.body.usage[3] = sess.body.usage[1] + sess.body.usage[2]
    /\ (sess.handler \notin {"dc_api", "dc_model"} \/ sess.fellBack) =>
         /\ sess.body.usage[1] = Len(sess.userInput)
         /\ sess.body.usage[2] = Len(sess.body.content)
    /\ (sess.handler = "dc_api" /\ ~sess.fellBack) =>
         /\ sess.body.usage[1] = Len(ApiHybridPrompt(sess.thinking))
         /\ sess.body.usage[2] = Len(sess.body.content)
    /\ sess.handler = "dc_model" =>
         /\ sess.body.usage[1] = Len(sess.userInput)
         /\ sess.body.usage[2] = Len(sess.answer)

(***************************************************************************)
(* Properties of the wire shape.                                           *)
(***************************************************************************)
\* C24: the wire shape follows the request's stream flag.  A request with
\* stream = false gets no SSE frame and, when its session is over, exactly one
\* JSON body; a request with stream = true gets its completion as SSE frames,
\* never as a JSON completion; and no JSON body is sent once a frame has been
\* written.
C24_WireShapeByFlag ==
  /\ ~sess.stream =>
       /\ sess.out = <<>>
       /\ sess.pc = "done" => sess.body # NoBody /\ sess.ends = 1
  /\ sess.stream => sess.body.kind # "completion"
  /\ sess.out # <<>> => sess.body = NoBody /\ ~sess.threw

\* what holds: the same for every handler but handleClaudeRequest of
\* models/claude-model
C24_WireShapeElsewhere ==
  sess.handler # "cl_model" =>
    /\ ~sess.stream =>
         /\ sess.out = <<>>
         /\ sess.pc = "done" => sess.body # NoBody /\ sess.ends = 1
    /\ sess.stream => sess.body.kind # "completion"
    /\ sess.out # <<>> => sess.body = NoBody /\ ~sess.threw

(***************************************************************************)
(* Properties of the state the sessions share.                             *)
(***************************************************************************)
\* chat c is being handled: its key is read and its response not yet over
InFlight(c) == sess.chats[c].pc \in {"claude_req", "claude_stream"}

\* a step that changes the session of one chat leaves the other chat's
\* session, the key it read, the token file and the admin state alone
ChatsApart ==
  \A c \in Chats :
    sess'.chats[c] # sess.chats[c] =>
      /\ \A d \in Chats \ {c} : sess'.chats[d] = sess.chats[d] /\ sess'.keys[d] = sess.keys[d]
      /\ sess'.file = sess.file /\ sess'.adminRes = sess.adminRes

\* C25 as stated: no step of a session touches another session, and the
\* process-wide state the handlers read (the configuration and the
\* credential) is not modified while a chat request is being handled.
C25_NoSharedMutableState ==
  [][/\ ChatsApart
     /\ sess'.config = sess.config
     /\ (\E c \in Chats : InFlight(c)) => getClaudeApiKey(sess') = getClaudeApiKey(sess)]_vars

\* C25, amended: no step of a session touches another session and the
\* configuration read at startup never changes, but the credential is shared
\* mutable state: the token file is rewritten, also while chat requests are
\* being handled, by a POST /admin/update-tokens that carried the valid admin
\* key and a tokens array (and by nothing else), and each session keeps the
\* key it read when it started.
C25_OnlyTokenFileShared ==
  [][/\ ChatsApart
     /\ sess'.config = sess.config
     /\ \A c \in Chats : sess.chats[c].pc # "start" => sess'.keys[c] = sess.keys[c]
     /\ sess'.file # sess.file =>
          /\ sess'.adminRes.route = "update-tokens" /\ sess'.adminRes.status = 200
          /\ sess'.adminRes.adminKey = ValidAdminKey(sess.config)
          /\ sess'.adminRes.body.tokens.kind = "array"
          /\ sess'.file = File(TRUE, Join(sess'.adminRes.body.tokens.list))
          /\ sess'.chats = sess.chats /\ sess'.keys = sess.keys]_vars

\* two chats in progress at the same time hold different keys: the token file
\* was rewritten between their reads
C25_Witness ==
  /\ sess.handler = "server" /\ \A c \in Chats : InFlight(c)
  /\ sess.keys[1] = <<"k0">> /\ sess.keys[2] = <<"k1">>
  /\ sess.chats[1].out # <<>> /\ sess.chats[2].out # <<>>

(***************************************************************************)
(* Properties of the admin routes.                                         *)
(***************************************************************************)
\* the last admin request was a POST /admin/update-tokens with the valid key
\* and a body from the given set, and the file system did not fail it
UpdateHandled(bodies) ==
  /\ sess.handler = "server" /\ sess.adminRes.route = "update-tokens"
  /\ sess.adminRes.adminKey = ValidAdminKey(sess.config)
  /\ sess.adminRes.body \in bodies /\ sess.adminRes.status # 500

\* the token values a body gives, one line each
GivenValues(body) ==
  LET items == IF body.api_tokens.kind = "array" THEN body.api_tokens.list
               ELSE body.tokens.list
  IN [i \in 1..Len(items) |-> <<items[i].value>>]

\* C26: an update in either documented format (api_tokens: array of strings;
\* tokens: array of {name, value}) sent with the valid admin key is answered
\* with success, the token file then holds the values given, and a single
\* value given is the key the chat handlers read from the file.
C26_DocumentedFormatsStored ==
  UpdateHandled(SimpleBodies \cup DetailedBodies) =>
    /\ sess.adminRes.status = 200
    /\ FileTokens(sess.file.text) = GivenValues(sess.adminRes.body)
    /\ (Len(GivenValues(sess.adminRes.body)) = 1 /\ sess.config.apiKey = "") =>
         getClaudeApiKey(sess) = GivenValues(sess.adminRes.body)[1]

\* what the route does store: the elements of an array of strings under the
\* key tokens
C26_StringArrayStored ==
  UpdateHandled(Bodies \ (SimpleBodies \cup DetailedBodies)) =>
    IF sess.adminRes.body.tokens.kind # "array" THEN sess.adminRes.status = 400
    ELSE /\ sess.adminRes.status = 200
         /\ FileTokens(sess.file.text) = GivenValues(sess.adminRes.body)
         /\ (Len(GivenValues(sess.adminRes.body)) = 1 /\ sess.config.apiKey = "") =>
              getClaudeApiKey(sess) = GivenValues(sess.adminRes.body)[1]

\* the x-admin-key of the last admin request was missing or not the valid key
KeyRefused(srv) ==
  /\ srv.adminRes.route # "none"
  /\ srv.adminRes.adminKey = "" \/ srv.adminRes.adminKey # ValidAdminKey(srv.config)

\* C27: a request to /admin/update-tokens or /admin/tokens whose x-admin-key
\* is missing or is not the valid admin key is answered with HTTP 401 and
\* lists no token, and the step that handles it leaves the token file and the
\* key that getClaudeApiKey returns as they were.
C27_RefusedChangesNothing ==
  /\ [](sess.handler = "server" /\ KeyRefused(sess) =>
          sess.adminRes.status = 401 /\ sess.adminRes.tokens = <<>>)
  /\ [][(sess'.adminRes # sess.adminRes /\ KeyRefused(sess')) =>
          /\ sess'.file = sess.file
          /\ getClaudeApiKey(sess') = getClaudeApiKey(sess)
          /\ sess'.config = sess.config]_vars

\* a refused update after an accepted one: the file still holds the token
\* stored before, and a chat that started afterwards read it
C27_Witness ==
  /\ sess.handler = "server" /\ sess.adminRes = Rejected("update-tokens", "wrong")
  /\ sess.file = File(TRUE, <<"k1">>)
  /\ sess.keys[1] = <<"k1">> /\ sess.keys[2] = <<"k0">>

(***************************************************************************)
(* Properties of the classification of upstream lines.                     *)
(***************************************************************************)
\* the tag the tests of handleDeepSeekRequest give a line
DsTag(e) ==
  IF e.type = "malformed" THEN "Malformed"
  ELSE IF IsThinking(e) THEN "Thinking"
  ELSE IF IsAnswer(e) THEN "Answer"
  ELSE "Ignored"

\* the tag the tests of the hybrid readers (getDeepSeekThinking and
\* models/deepclaude-model) give a line
HybridTag(e) ==
  IF e.type = "malformed" THEN "Malformed"
  ELSE IF IsThinking(e) THEN "Thinking"
  ELSE IF IsAnswerMark(e) THEN "Answer"
  ELSE "Ignored"

\* a session that is reading the reasoning body, at the top of its line loop
ReadingLines ==
  /\ sess.handler \in {"ds_model", "ds_api", "dc_model", "dc_api"}
  /\ sess.pc \in {"reading", "gdt_reading"} /\ sess.dsConn = "open" /\ ~sess.shouldExit

\* the session after its reader has handled the one line e
AfterLine(e) ==
  IF sess.handler = "dc_api" THEN GdtLines(sess, <<e>>)
  ELSE IF sess.handler = "dc_model" THEN DcmLines(sess, <<e>>)
  ELSE IF ~sess.stream THEN DsAggLine(sess, e)
  ELSE IF sess.handler = "ds_model" THEN DsmLine(sess, e)
  ELSE DsaLine(sess, e)

\* how the session took the line: as thinking text (and which), as the answer
\* (and which text), or not at all
Taken(e) ==
  LET n == AfterLine(e)
      thinkingOf(r) == IF r.handler = "dc_api" THEN r.thinkingResponse ELSE r.thinking
      thinkFrames(r) == Len(SelectSeq(r.out, LAMBDA f : f.k = "think"))
      grown(a, b) == Len(b) > Len(a)
  IN IF grown(thinkingOf(sess), thinkingOf(n)) \/ thinkFrames(n) > thinkFrames(sess)
     THEN <<"Thinking", IF grown(thinkingOf(sess), thinkingOf(n))
                        THEN SubSeq(thinkingOf(n), Len(thinkingOf(sess)) + 1, Len(thinkingOf(n)))
                        ELSE n.out[Len(n.out)].t>>
     ELSE IF grown(sess.answer, n.answer)
     THEN <<"Answer", SubSeq(n.answer, Len(sess.answer) + 1, Len(n.answer))>>
     ELSE IF n.thinkingFinished \/ n.shouldExit THEN <<"Answer", <<>>>>
     ELSE <<"Ignored", <<>>>>

\* a tag with its text; a malformed line is handled as an ignored one
Tagged(tag, e) ==
  IF tag \in {"Malformed", "Ignored"} THEN <<"Ignored", <<>>>> ELSE <<tag, e.content>>

EventsOf(events, k) == SelectSeq(events, LAMBDA f : f.k = k)

\* C29: a streaming session of handleDeepSeekRequest (models/deepseek-model)
\* whose upstream delivered n >= 1 Thinking events, then m >= 1 Answer events,
\* and ended cleanly has written exactly: the role frame, the open marker, the
\* n thinking deltas, the close marker, the m answer deltas, the terminal
\* frame (and the sentinel).
C29_ThinkingThenAnswerFrames ==
  (/\ Streaming({"ds_model"}) /\ sess.pc = "done" /\ Written("done")
   /\ ThinkingFirst(sess.evlog)
   /\ EventsOf(sess.evlog, "think") # <<>> /\ EventsOf(sess.evlog, "answer") # <<>>) =>
    sess.out = <<RoleFrame, OpenFrame>> \o EventsOf(sess.evlog, "think")
                 \o <<CloseFrame>> \o EventsOf(sess.evlog, "answer")
                 \o <<StopFrame, DoneFrame>>

C29_Witness ==
  /\ Streaming({"ds_model"}) /\ sess.pc = "done" /\ Written("done")
  /\ sess.evlog = <<Frame("think", <<"t">>), Frame("think", <<SP>>), Frame("answer", <<"t">>)>>

\* no open marker and no thinking delta after an answer delta, and every
\* thinking delta after the open marker and before the close marker
PhaseForward ==
  /\ \A a \in Positions("answer") :
       \A p \in Positions("open") \cup Positions("think") : p < a
  /\ \A p \in Positions("think") :
       /\ \E o \in Positions("open") : o < p
       /\ \A c \in Positions("close") : p < c

\* C30: in a streaming session the phase only moves forward: once an Answer
\* delta has been forwarded no open marker and no Thinking delta is written,
\* and every Thinking delta lies between the open and the close marker.
C30_PhaseMovesForward == sess.stream /\ sess.handler # "server" => PhaseForward

\* what holds: the same for every handler but handleDeepSeekRequest of
\* models/deepseek-model
C30_PhaseForwardElsewhere ==
  (sess.stream /\ sess.handler \notin {"server", "ds_model"}) => PhaseForward

(***************************************************************************)
(* Properties of lines that carry no event.                                *)
(***************************************************************************)
\* {"type":"answer","content":""}: an answer line without content
EmptyAnswerLine == Line("answer", "text", <<>>)

\* the readers of a reasoning body that C31 names
ReasoningConsumer ==
  ReadingLines /\ (sess.handler \in {"dc_model", "dc_api"} \/ sess.stream)

\* C31: an answer line with empty content is ignored by every consumer of the
\* reasoning stream: the session after the line is the session before it (no
\* flag changed, the collection of thinking text not ended, no frame written).
C31_EmptyAnswerLineIgnored == ReasoningConsumer => AfterLine(EmptyAnswerLine) = sess

\* what holds: it is ignored by the two handleDeepSeekRequest, and by
\* getDeepSeekThinking as long as no thinking text has been collected
C31_EmptyAnswerLineIgnoredByDeepSeek ==
  (/\ ReasoningConsumer
   /\ \/ sess.handler \in {"ds_model", "ds_api"}
      \/ sess.handler = "dc_api" /\ sess.thinkingResponse = <<>>) =>
    AfterLine(EmptyAnswerLine) = sess

\* the lines of a chunk as the session's reader handles them
ReadLines(s, ch) ==
  IF s.handler = "dc_api" THEN GdtLines(s, ch)
  ELSE IF s.handler = "dc_model" THEN DcmLines(s, ch)
  ELSE IF ~s.stream THEN DsAggLines(s, ch)
  ELSE IF s.handler = "ds_model" THEN DsmLines(s, ch)
  ELSE DsaLines(s, ch)

\* a line JSON.parse rejects, or one that matches neither rule of the classifier
NeitherRule(e) == ~IsThinking(e) /\ ~IsAnswer(e)

\* the reader handles the line e followed by rest as it handles rest alone
Inert(e) ==
  \A rest \in SeqsUpTo(Events, 1) : ReadLines(sess, <<e>> \o rest) = ReadLines(sess, rest)

\* C32: a line that fails JSON parsing or matches neither classifier rule is
\* inert: flags, accumulators and frames are as if it had not been there, and
\* the lines after it are handled as without it.
C32_NeitherRuleLineInert ==
  ReadingLines => \A e \in Events : NeitherRule(e) => Inert(e)

\* what holds: the same for every such line but the answer line without
\* content in the hybrid readers
C32_InertButEmptyAnswerLine ==
  ReadingLines =>
    \A e \in Events :
      (NeitherRule(e) /\ ~(e = EmptyAnswerLine /\ sess.handler \in {"dc_model", "dc_api"})) =>
        Inert(e)

(***************************************************************************)
(* Properties of a reasoning stream without thinking.                      *)
(***************************************************************************)
\* C33: in a streaming session of handleDeepSeekRequest (api-server.js and
\* models/deepseek-model) whose upstream delivered no Thinking event, every
\* Answer delta is forwarded as it is and no open marker, close marker or
\* thinking block is written, at the end of the stream included.
C33_NoThinkingNoMarkers ==
  (Streaming({"ds_model", "ds_api"}) /\ EventsOf(sess.evlog, "think") = <<>>) =>
    /\ ~Written("open") /\ ~Written("close") /\ ~Written("block")
    /\ ContentFrames(sess.out) = sess.evlog

C33_Witness ==
  /\ Streaming({"ds_model"}) /\ sess.pc = "done" /\ Written("done")
  /\ sess.evlog = <<Frame("answer", <<"t">>), Frame("answer", <<"t">>)>>

(***************************************************************************)
(* Properties of the end of a reasoning body.                              *)
(***************************************************************************)
\* the text the reasoning reader decoded from its chunks, split at the newlines
Pieces ==
  LET RECURSIVE Text(_)
      Text(chunks) == IF chunks = <<>> THEN <<>> ELSE Decode(Head(chunks)) \o Text(Tail(chunks))
  IN SplitLines(Text(sess.chunks))

\* C34: after the last chunk of a reasoning body the lines handed to the line
\* loop are the newline-terminated ones; the fragment after the last newline is
\* left in the buffer and is no line, also when it is a whole JSON line.
C34_FinalFragmentDiscarded ==
  (sess.handler = "reader" /\ sess.reader = "reasoning" /\ sess.pc = "fed") =>
    /\ sess.lines = SubSeq(Pieces, 1, Len(Pieces) - 1)
    /\ sess.buffer = Pieces[Len(Pieces)]

C34_Witness ==
  /\ sess.handler = "reader" /\ sess.reader = "reasoning" /\ sess.pc = "fed"
  /\ IsDelta(sess.buffer) /\ sess.lines = <<(<<>>)>> /\ Len(sess.chunks[1]) = 2

(***************************************************************************)
(* Properties of the answer request of the hybrid flow.                    *)
(***************************************************************************)
\* the thinking text a hybrid prompt carries: what stands between the heading
\* of the reasoning and the closing instruction
Embedded(prompt) ==
  LET i == CHOOSE i \in 1..Len(prompt) : prompt[i] = "[reasoning:]"
  IN SubSeq(prompt, i + 1, Len(prompt) - 1)

\* the texts of a sequence of events, concatenated
RECURSIVE TextOf(_)
TextOf(events) == IF events = <<>> THEN <<>> ELSE Head(events).t \o TextOf(Tail(events))

\* the thinking text the reasoning stage collected
Collected == IF sess.handler = "dc_api" THEN sess.thinkingResponse ELSE sess.thinking

\* the answer request of the hybrid path has been issued
HybridRequested ==
  sess.handler \in {"dc_api", "dc_model"} /\ ~sess.fellBack /\ sess.claudeReqs # <<>>

\* C35: in a hybrid session the answer request is issued after the reasoning
\* stage is over (streaming: after the close marker was written); the thinking
\* text in it is the text of the Thinking events of stage 1 in their order,
\* trimmed, and when streaming it is the text written between the markers.
C35_AnswerRequestCarriesThinking ==
  HybridRequested =>
    /\ sess.dsConn = "closed"
    /\ Embedded(sess.claudeReqs[1]) = Trim(Collected)
    /\ sess.stream =>
         /\ Written("close")
         /\ Embedded(sess.claudeReqs[1]) = Trim(ThinkText(sess.out))

\* what holds: all of it in handleDeepClaudeRequest of models/deepclaude-model,
\* where the collected text is that of the Thinking events read up to the line
\* that ended the stage; in api-server.js the request is issued after the
\* reasoning stage and carries the collected text as it is
C35_AnswerRequestPerHandler ==
  HybridRequested =>
    /\ sess.dsConn = "closed"
    /\ IF sess.handler = "dc_model"
       THEN /\ Embedded(sess.claudeReqs[1]) = Trim(Collected)
            /\ LET thinks == EventsOf(sess.evlog, "think")
               IN IF sess.thinkingFinished
                  THEN \E n \in 0..Len(thinks) : Collected = TextOf(SubSeq(thinks, 1, n))
                  ELSE Collected = TextOf(thinks)
            /\ sess.stream =>
                 /\ Written("close")
                 /\ Embedded(sess.claudeReqs[1]) = Trim(ThinkText(sess.out))
       ELSE Embedded(sess.claudeReqs[1]) = Collected

(***************************************************************************)
(* The envelope of the chunk frames: id, created and model.  Every         *)
(* streaming branch declares id and created once, before its first write,  *)
(* and every frame it writes reads these two variables; the model value is *)
(* written out at each write.                                              *)
(***************************************************************************)
\* config.claude.models[0]
CLAUDE_DEFAULT_MODEL == "claude-3-7-sonnet-latest"

\* the frames that are chat.completion.chunk objects (the sentinel and the
\* 'event: error' frames are not)
ChunkKinds == {"role", "open", "think", "close", "block", "answer", "notice", "stop"}

\* the model value at the write of a frame of kind k
FrameModel(s, k) ==
  IF s.handler \in {"ds_model", "ds_api"} THEN "deepseek-r1"
  ELSE IF s.handler \in {"cl_model", "cl_api"} THEN CLAUDE_DEFAULT_MODEL
  ELSE IF s.handler = "dc_model" \/ s.fellBack THEN "deepclaude"
  ELSE IF k = "role" THEN CLAUDE_DEFAULT_MODEL
  ELSE "deepclaude"

Envelope(s, f) == [id |-> "id", created |-> "created", model |-> FrameModel(s, f.k)]

ChunkPositions == {i \in 1..Len(sess.out) : sess.out[i].k \in ChunkKinds}

\* C36: all chunk frames of one streaming session carry the same id, the same
\* created and the same model.
C36_OneEnvelopePerSession ==
  sess.handler \in Handlers =>
    \A i, j \in ChunkPositions : Envelope(sess, sess.out[i]) = Envelope(sess, sess.out[j])

\* what holds: the same id and created in all frames, and the same model in
\* all frames but the role frame of the hybrid path of api-server.js
C36_OneEnvelopeButHybridRole ==
  sess.handler \in Handlers =>
    \A i, j \in ChunkPositions :
      /\ Envelope(sess, sess.out[i]).id = Envelope(sess, sess.out[j]).id
      /\ Envelope(sess, sess.out[i]).created = Envelope(sess, sess.out[j]).created
      /\ \/ sess.handler = "dc_api" /\ ~sess.fellBack /\ "role" \in {sess.out[i].k, sess.out[j].k}
         \/ Envelope(sess, sess.out[i]).model = Envelope(sess, sess.out[j]).model

(***************************************************************************)
(* Properties of the retry loop and the outcomes of handleDeepClaudeRequest *)
(* (api-server.js).                                                        *)
(***************************************************************************)
\* a prompt that carries reasoning
IsHybridPrompt(prompt) == \E i \in 1..Len(prompt) : prompt[i] = "[reasoning:]"

\* the answer request with the reasoning has been issued
HybridIssued == \E i \in 1..Len(sess.claudeReqs) : IsHybridPrompt(sess.claudeReqs[i])

\* the session answered with an error before any answer request
ErrorOnly ==
  /\ ~sess.fellBack /\ sess.claudeReqs = <<>>
  /\ sess.status = 500 /\ sess.body = ErrorBody

\* C37: in a session of handleDeepClaudeRequest (api-server.js)
\* getDeepSeekThinking is called at most 1 + maxRetries times and not again
\* once a call has returned thinking text; a finished session has taken
\* exactly one of: the hybrid answer request, the fallback, an error response;
\* and once the fallback is invoked no reasoning call and no further answer
\* request follows (it is not invoked twice, nor after the hybrid request).
C37_RetriesAndOutcomes ==
  /\ [](sess.handler = "dc_api" =>
          /\ sess.dsCalls <= MaxRetries + 1
          /\ sess.thinking # <<>> => ~InReasoning
          /\ ~(sess.fellBack /\ HybridIssued)
          /\ Len(sess.claudeReqs) <= 1
          /\ sess.pc = "done" =>
               Cardinality({o \in {"hybrid", "fallback", "error"} :
                              \/ o = "hybrid" /\ HybridIssued
                              \/ o = "fallback" /\ sess.fellBack
                              \/ o = "error" /\ ErrorOnly}) = 1)
  /\ [][(sess.handler = "dc_api" /\ sess.fellBack) =>
          /\ sess'.fellBack /\ sess'.dsCalls = sess.dsCalls
          /\ sess'.claudeReqs = sess.claudeReqs]_vars

C37_Witness ==
  /\ sess.handler = "dc_api" /\ sess.pc = "done" /\ sess.dsCalls = MaxRetries + 1
  /\ HybridIssued /\ ~sess.fellBack /\ sess.status = 200

\* C38: on the hybrid path the answer provider is never called with empty
\* thinking text: the request that carries the reasoning is issued only when
\* the collected thinking text has length > 0, and the text it carries is not
\* empty.
C38_NeverEmptyThinking ==
  HybridIssued =>
    /\ Len(Collected) > 0
    /\ Embedded(sess.claudeReqs[1]) # <<>>

\* what holds: the collected text has length > 0 when the request is issued;
\* the text carried is empty exactly when models/deepclaude-model collected
\* nothing but whitespace
C38_CollectedNotEmpty ==
  HybridIssued =>
    /\ Len(Collected) > 0
    /\ Embedded(sess.claudeReqs[1]) = <<>> <=>
         (sess.handler = "dc_model" /\ Trim(Collected) = <<>>)

(***************************************************************************)
(* Properties of getClaudeApiKey(req) of the model modules.                *)
(***************************************************************************)
\* getClaudeApiKey(req) has been called
KeyAsked == sess.handler = "module" /\ sess.calls = 1

\* the header carries a value
HeaderGiven == sess.header.given /\ sess.header.text # <<>>

\* the key file can be read and is not blank
FileUsable ==
  /\ Trim(sess.module.CLAUDE_API_KEY_PATH) # <<>> /\ sess.file.exists /\ sess.readOk
  /\ Trim(sess.file.text) # <<>>

\* C39: getClaudeApiKey(req) returns, in this order: the Authorization header
\* when it begins with "Bearer " (or, when the header_token_config in effect
\* is not "ignore", the header with "Bearer " put before it); the configured
\* api_key when it is not blank; the trimmed content of the file at
\* api_key_path; null.  Every result but null begins with "Bearer ", and under
\* "ignore" a header without the prefix does not override the configured key.
C39_KeyPriority ==
  KeyAsked =>
    /\ sess.result =
         IF HeaderGiven /\ StartsWithBearer(sess.header.text) THEN Key(sess.header.text)
         ELSE IF HeaderGiven /\ sess.module.HEADER_TOKEN_CONFIG # "ignore"
         THEN Key(BEARER \o sess.header.text)
         ELSE IF Trim(sess.config.api_key) # <<>>
         THEN Key(WithBearer(Trim(sess.config.api_key)))
         ELSE IF FileUsable THEN Key(WithBearer(Trim(sess.file.text)))
         ELSE Null
    /\ ~sess.result.null => StartsWithBearer(sess.result.text)
    /\ (/\ HeaderGiven /\ ~StartsWithBearer(sess.header.text)
        /\ sess.module.HEADER_TOKEN_CONFIG = "ignore"
        /\ Trim(sess.config.api_key) # <<>>) =>
         sess.result = Key(WithBearer(Trim(sess.config.api_key)))

C39_Witness ==
  /\ KeyAsked /\ sess.header = Header(TRUE, <<"h">>)
  /\ sess.config.header_token_config = "ignore" /\ sess.config.api_key = <<SP, "c">>
  /\ sess.result = Key(BEARER \o <<"c">>)

====
